---- MODULE Spec2Model ----
(***************************************************************************)
(* Model of the keithley2400_mpp measurement procedures:                   *)
(*   - MPPTracking_Procedure (perturb-and-observe loop),                    *)
(*   - Voc_Procedure (settling detector),                                   *)
(*   - the shared Keithley2400_Procedure helpers (format_data, wait_for).   *)
(* Time is an integer number of seconds.  A float number of minutes is a    *)
(* rational [num, den]; voltages, currents and powers are integers in an    *)
(* arbitrary fixed unit, so arithmetic is exact.                            *)
(***************************************************************************)
EXTENDS Integers, Sequences, FiniteSets, TLC

VARIABLES
    proc,             \* which procedure this behaviour executes
    pc,               \* position of the procedure inside execute
    now,              \* time.time()
    stop,             \* the flag should_stop() reads
    instrument,       \* "open" | "shutdown" : the Keithley2400 handle
    cfg,              \* the procedure's parameters
    start_time,       \* self._start_time (None until execute)
    source_voltage,   \* instrument.source_voltage
    probe_direction,  \* local of MPP execute
    last_probe_time,  \* self._last_probe_time (None until the first baseline)
    powers,           \* local list of _baseline / _probe
    cycle_start,      \* local of the sampling loops
    baseline_data,    \* ( voltage, powers ) returned by _baseline
    probe_data,       \* ( voltage, powers ) returned by _probe
    better_voltage,   \* local of MPP execute
    wait_end,         \* local `end` of wait_for
    wait_ret,         \* where wait_for returns to
    error,            \* the exception execute ended with, or None
    cycles,           \* number of decisions taken (history)
    dwell_start,      \* when the current baseline dwell began (history)
    data,             \* local window of Voc execute
    history,          \* every voltage Voc measured, in order (history)
    result,           \* how Voc execute returned: None | "Settled" | "TimedOut"
    datum,            \* the last datum _measure_datum / _measure returned
    buffer,           \* instrument.buffer_data as last read
    emitted,          \* number of records passed to emit( 'results', ... )
    acq_error,        \* what the latest buffer acquisition raised, or None
    acq_since_stop,   \* acquisitions begun with the stop flag set, capped (history)
    sweep_direction,  \* the direction parameter of JV _sweep
    sweep_run_time,   \* JV self.run_time, set by startup
    commands,         \* what the JV procedure has sent to the instrument, in order
    records,          \* the records the JV procedure has emitted, in order
    main_pc,          \* position of main() between its stages
    workers,          \* state of the Worker thread main() made for each stage
    jv_proc,          \* the parameters of main's jv_proc that main reads or writes
    mpp_proc,         \* the parameters of main's mpp_proc that main reads or writes
    voc_measured,     \* local of main: mean of the last Voc voltages, as a fraction
    elements,         \* self.__elements as set_elements stored it (None until then)
    cycle_emitted     \* value of `emitted` when the current MPP cycle began (history)

vars == << proc, pc, now, stop, instrument, cfg, start_time, source_voltage,
           probe_direction, last_probe_time, powers, cycle_start,
           baseline_data, probe_data, better_voltage, wait_end, wait_ret,
           error, cycles, dwell_start, data, history, result, datum, buffer,
           emitted, acq_error, acq_since_stop, sweep_direction,
           sweep_run_time, commands, records, main_pc, workers, jv_proc,
           mpp_proc, voc_measured, elements, cycle_emitted >>

None == "None"

\* a time attribute that is not set yet (reading it raises AttributeError);
\* times are never negative
NoTime == -1

----------------------------------------------------------------------------
(* Bounds of the model *)

MaxInterval == 2       \* probe_interval and data_interval range over 0..MaxInterval
MaxProbePoints == 2    \* probe_points ranges over 0..MaxProbePoints
MaxRunSeconds == 3     \* run_time ranges over 1/60 .. MaxRunSeconds/60 minutes

----------------------------------------------------------------------------
(* Sequences and Python list semantics *)

RECURSIVE SumSeq(_)
SumSeq(s) == IF s = << >> THEN 0 ELSE Head(s) + SumSeq(Tail(s))

Min2(a, b) == IF a <= b THEN a ELSE b

\* Python s[ k: ] : a negative k counts from the end, then k is clamped to
\* [0, len( s )].  Note s[ -0: ] is s[ 0: ], the whole list.
PySliceFrom(s, k) ==
    LET n     == Len(s)
        k0    == IF k < 0 THEN k + n ELSE k
        first == IF k0 < 0 THEN 0 ELSE IF k0 > n THEN n ELSE k0
    IN  SubSeq(s, first + 1, n)

\* Python s[ :k ]
PySliceTo(s, k) ==
    LET n    == Len(s)
        k0   == IF k < 0 THEN k + n ELSE k
        last == IF k0 < 0 THEN 0 ELSE IF k0 > n THEN n ELSE k0
    IN  SubSeq(s, 1, last)

----------------------------------------------------------------------------
(* Keithley2400_Procedure: elements, format_data *)

\* The elements list the instrument answers to ':format:elements?' after
\* set_elements( [ 'time', 'voltage', 'current' ] ) (Voc, MPP) and after
\* set_elements( [ 'voltage', 'current' ] ) (JV).
Elements ==
    IF proc = "jv" THEN << "VOLT", "CURR" >> ELSE << "VOLT", "CURR", "TIME" >>

\* list.index
Index(s, x) == CHOOSE i \in 1..Len(s) : s[i] = x /\ \A j \in 1..(i - 1) : s[j] # x

\* variant: a buffer whose length is not a multiple of the number of
\* elements is cut to the last complete row
format_data_truncating(flat) ==
    LET cols == Len(Elements)
    IN  [ raised |-> None,
          rows   |-> [ r \in 1..(Len(flat) \div cols) |->
                         SubSeq(flat, (r - 1) * cols + 1, r * cols) ] ]

\* format_data: reshape the flat buffer into rows of len( elements ) fields;
\* ValueError when the length is not divisible by the number of elements.
format_data(flat) ==
    LET cols == Len(Elements)
    IN  IF Len(flat) % cols # 0
        THEN [ raised |-> "ValueError", rows |-> << >> ]
        ELSE [ raised |-> None,
               rows   |-> [ r \in 1..(Len(flat) \div cols) |->
                              SubSeq(flat, (r - 1) * cols + 1, r * cols) ] ]

\* numpy mean of a sequence (the model only draws buffers whose means are
\* integers, see ExactRows)
Mean(s) == SumSeq(s) \div Len(s)

Column(rows, c) == [ r \in 1..Len(rows) |-> rows[r][c] ]

\* numpy prod( axis = 1 ) of one row: the product of every field of the row
RECURSIVE RowProd(_)
RowProd(row) == IF row = << >> THEN 1 ELSE Head(row) * RowProd(Tail(row))

\* data.prod( axis = 1 ).mean()
RowProdMean(rows) == Mean([ r \in 1..Len(rows) |-> RowProd(rows[r]) ])

\* MPPTracking_Procedure._measure_datum, given the formatted rows and
\* self.time_elapsed
MeasureDatum(rows, elapsed) ==
    [ time    |-> elapsed - Mean(Column(rows, Index(Elements, "TIME"))),
      voltage |-> Mean(Column(rows, Index(Elements, "VOLT"))),
      current |-> Mean(Column(rows, Index(Elements, "CURR"))),
      power   |-> RowProdMean(rows) ]

\* Rows whose column means and mean of row products are integers.
ExactRows(rows) ==
    /\ \A c \in 1..Len(Elements) : SumSeq(Column(rows, c)) % Len(rows) = 0
    /\ SumSeq([ r \in 1..Len(rows) |-> RowProd(rows[r]) ]) % Len(rows) = 0
    /\ SumSeq([ r \in 1..Len(rows) |->
                  rows[r][Index(Elements, "VOLT")] * rows[r][Index(Elements, "CURR")] ])
           % Len(rows) = 0

----------------------------------------------------------------------------
(* MPPTracking_Procedure: progress, _time_remaining, _better_voltage *)

SecondsPerMinute == 60

\* variant: the budget converted with the wrong factor
RunSeconds_wrongFactor(run_time) ==
    [ num |-> run_time.num * SecondsPerMinute * 2, den |-> run_time.den ]

\* run_time* 60, as a rational number of seconds
RunSeconds(run_time) == [ num |-> run_time.num * SecondsPerMinute, den |-> run_time.den ]

time_elapsed == IF start_time = NoTime THEN 0 ELSE now - start_time

\* the number n, as the fraction n / 1
Whole(n) == [ raised |-> None, num |-> n, den |-> 1 ]

\* Python n / d as a fraction with a positive denominator; ZeroDivisionError
\* when d is 0
Divide(n, d) ==
    IF d = 0 THEN [ raised |-> "ZeroDivisionError", num |-> 0, den |-> 1 ]
    ELSE IF d < 0 THEN [ raised |-> None, num |-> -n, den |-> -d ]
    ELSE [ raised |-> None, num |-> n, den |-> d ]

\* min( progress, 1 )
CapAt1(p) == IF p.raised = None /\ p.num >= p.den THEN Whole(1) ELSE p

\* MPPTracking_Procedure.progress, as a fraction num / den
mpp_progress ==
    IF start_time = NoTime
    THEN Whole(0)
    ELSE LET b == RunSeconds(cfg.run_time)
         IN  CapAt1(Divide(time_elapsed * b.den, b.num))

FracLT1(f) == f.num < f.den

\* variant: the elapsed time taken with the wrong sign
time_remaining_signError(t, start, interval) == interval - (start - t)

\* _time_remaining( start, interval ) evaluated at time t
time_remaining(t, start, interval) == interval - (t - start)

\* num_points = min( self.probe_points, len( p1 ), len( p2 ) )
NumPoints(p1, p2) == Min2(cfg.probe_points, Min2(Len(p1), Len(p2)))

\* p[ -num_points: ], the samples of a series that _better_voltage sums
ComparedSlice(p, num_points) == PySliceFrom(p, -num_points)

\* variant: the sums are compared as they are in both modes
ComparedSums_unsigned(p1, p2) ==
    LET s1 == SumSeq(ComparedSlice(p1, NumPoints(p1, p2)))
        s2 == SumSeq(ComparedSlice(p2, NumPoints(p1, p2)))
    IN  [ m1 |-> s1, m2 |-> s2 ]

\* the two sums _better_voltage compares, after the sign adjustment
ComparedSums(p1, p2) ==
    LET s1 == SumSeq(ComparedSlice(p1, NumPoints(p1, p2)))
        s2 == SumSeq(ComparedSlice(p2, NumPoints(p1, p2)))
    IN  IF ~cfg.power_production_mode
        THEN [ m1 |-> -s1, m2 |-> -s2 ]
        ELSE [ m1 |-> s1, m2 |-> s2 ]

\* variant: a tie keeps the first voltage
BetterVoltage_tieFirst(d1, d2) ==
    LET m == ComparedSums(d1.p, d2.p)
    IN  IF m.m1 >= m.m2 THEN d1.v ELSE d2.v

\* _better_voltage( d1, d2 )
BetterVoltage(d1, d2) ==
    LET m == ComparedSums(d1.p, d2.p)
    IN  IF m.m1 > m.m2 THEN d1.v ELSE d2.v

\* variant: the dwell ends one second early
BaselineContinues_early(t, last, probe_interval) == (t - last) < probe_interval - 1

\* the loop condition of _baseline at time t
BaselineContinues(t, last, probe_interval) == (t - last) < probe_interval

\* variant: the probe ignores the direction
ProbeVoltage_noDirection(voltage, direction, probe_step) == voltage + probe_step

\* _probe: source_voltage += ( direction* self.probe_step )
ProbeVoltage(voltage, direction, probe_step) == voltage + (direction * probe_step)

\* variant: the additive revert, source_voltage += baseline_voltage
Revert_additive(voltage, baseline_voltage) == voltage + baseline_voltage

\* the revert of execute: source_voltage = baseline_voltage
Revert(voltage, baseline_voltage) == baseline_voltage

----------------------------------------------------------------------------
(* What the instrument can return *)

\* flat buffers of `points` rows ( VOLT, CURR, TIME ) over the given values
FlatBuffers(points, volts, currs, times) ==
    LET Row  == { << v, i, t >> : v \in volts, i \in currs, t \in times }
        Rows == [ 1..points -> Row ]
        Flat(rows) == [ k \in 1..(points * 3) |-> rows[((k - 1) \div 3) + 1][((k - 1) % 3) + 1] ]
    IN  { Flat(rows) : rows \in { r \in Rows : ExactRows(r) } }

\* the current of a cell whose power voltage* current has, on the odd
\* voltages, its one extreme at CellPeak: a maximum when power is counted
\* as produced, a minimum when it is counted as consumed
CellPeak == 3
CellCurrent(v, power_production_mode) == IF power_production_mode THEN 7 - v ELSE v - 7

\* buffers read during an MPP run: with no cell described, well-formed ones
\* and one that lost its last field; with the cell, the one row of the
\* source voltage, the current of the cell at that voltage and the time
\* stamp of the reading
MPPBuffers ==
    IF cfg.cell = None
    THEN LET good == FlatBuffers(cfg.buffer_points, {1}, {5}, {1, 2})
         IN  good \cup { SubSeq(b, 1, Len(b) - 1) : b \in { << 1, 5, 1 >> } }
    ELSE { << source_voltage,
              CellCurrent(source_voltage, cfg.power_production_mode),
              now + 1 >> }

\* an acquisition blocks for one or three seconds: less than or longer than
\* a data_interval
Latencies == { 1, 3 }

----------------------------------------------------------------------------
(* Variable groups *)

envVars   == << proc, cfg, elements, cycle_emitted >>
mppLocals == << probe_direction, powers, cycle_start, baseline_data, probe_data,
                better_voltage, cycles, dwell_start >>
vocVars   == << data, history, result >>
waitVars  == << wait_end, wait_ret >>
obsVars   == << emitted, acq_error, acq_since_stop >>
jvVars    == << sweep_direction, sweep_run_time, commands, records >>
mainVars  == << main_pc, workers, jv_proc, mpp_proc, voc_measured >>

\* A behaviour of one procedure alone: main() is not running, no elements
\* are stored and no record has been emitted.
NoMain ==
    /\ main_pc = "off"
    /\ workers = [ w \in { "voc", "jv", "mpp" } |-> [ at |-> "idle", should_stop |-> FALSE ] ]
    /\ jv_proc = [ start_voltage |-> 0, end_voltage |-> 0, voltage_step |-> 1 ]
    /\ mpp_proc = [ initial_voltage |-> 0, power_production_mode |-> FALSE ]
    /\ voc_measured = [ num |-> 0, den |-> 1 ]
    /\ elements = None
    /\ cycle_emitted = 0

Terminated == pc \in { "done", "raised", "closed" }

----------------------------------------------------------------------------
(* Keithley2400_Procedure.wait_for, one poll slice per step *)

\* wait_for( seconds, interval ): end = time.time() + seconds, then poll
EnterWait(t, seconds, ret) ==
    /\ wait_end' = t + seconds
    /\ wait_ret' = ret
    /\ pc' = "wait"

\* variant: shutdown leaves the instrument as it is
shutdown_skipped(instr) == instr

\* Keithley2400_Procedure.shutdown: `if self.instrument:
\* self.instrument.shutdown()`; the instrument exists during execute
shutdown(instr) == "shutdown"

\* variant: Voc passes interval = data_interval
PollInterval_whole ==
    IF proc = "voc" THEN cfg.data_interval
    ELSE IF proc = "wait" THEN cfg.interval
    ELSE 1

\* the interval wait_for sleeps between two polls of should_stop: Voc passes
\* interval = data_interval/ 5, a direct call passes its own, and the MPP
\* engine leaves the default, interval = 1
PollInterval ==
    IF proc = "voc" THEN cfg.data_interval \div 5
    ELSE IF proc = "wait" THEN cfg.interval
    ELSE 1

\* while time.time() < end: should_stop() -> shutdown, raise; else sleep
WaitPoll ==
    /\ pc = "wait"
    /\ now < wait_end
    /\ IF stop
       THEN /\ instrument' = shutdown(instrument)
            /\ error' = "RuntimeError"
            /\ pc' = "raised"
            /\ UNCHANGED now
       ELSE /\ now' = now + PollInterval
            /\ UNCHANGED << instrument, error, pc >>
    /\ UNCHANGED << envVars, mainVars, jvVars, obsVars, mppLocals, vocVars, waitVars, stop, start_time,
                    source_voltage, last_probe_time, datum, buffer >>

\* the while loop of wait_for ends: return to the caller
WaitReturn ==
    /\ pc = "wait"
    /\ now >= wait_end
    /\ pc' = wait_ret
    /\ UNCHANGED << envVars, mainVars, jvVars, obsVars, mppLocals, vocVars, waitVars, now, stop, instrument,
                    error, start_time, source_voltage, last_probe_time, datum, buffer >>

\* the user asks the worker to stop
UserStop ==
    /\ ~stop
    /\ ~Terminated
    /\ stop' = TRUE
    /\ UNCHANGED << envVars, mainVars, jvVars, obsVars, mppLocals, vocVars, waitVars, pc, now, instrument,
                    error, start_time, source_voltage, last_probe_time, datum, buffer >>

----------------------------------------------------------------------------
(* MPPTracking_Procedure.execute *)

\* variant: the first probe goes downwards
MPPExecute_downwards ==
    /\ proc = "mpp"
    /\ pc = "execute"
    /\ start_time' = now
    /\ probe_direction' = -1
    /\ source_voltage' = cfg.initial_voltage
    /\ pc' = "loop"
    /\ UNCHANGED << envVars, mainVars, jvVars, obsVars, vocVars, waitVars, now, stop, instrument, error,
                    last_probe_time, powers, cycle_start, baseline_data,
                    probe_data, better_voltage, cycles, dwell_start, datum, buffer >>

\* execute up to the while loop: start time, probe_direction, enable_source,
\* source_voltage = initial_voltage
MPPExecute ==
    /\ proc = "mpp"
    /\ pc = "execute"
    /\ start_time' = now
    /\ probe_direction' = 1
    /\ source_voltage' = cfg.initial_voltage
    /\ pc' = "loop"
    /\ UNCHANGED << envVars, mainVars, jvVars, obsVars, vocVars, waitVars, now, stop, instrument, error,
                    last_probe_time, powers, cycle_start, baseline_data,
                    probe_data, better_voltage, cycles, dwell_start, datum, buffer >>

\* `while self.progress < 1`: enter _baseline (initialising _last_probe_time
\* if it is not set) or leave the loop
MPPLoopTest ==
    /\ proc = "mpp"
    /\ pc = "loop"
    /\ IF FracLT1(mpp_progress)
       THEN /\ last_probe_time' = IF last_probe_time = NoTime THEN now ELSE last_probe_time
            /\ dwell_start' = IF cycles = 0 THEN now ELSE dwell_start
            /\ powers' = << >>
            /\ cycle_emitted' = emitted
            /\ pc' = "baseline"
       ELSE /\ pc' = "done"
            /\ UNCHANGED << last_probe_time, powers, dwell_start, cycle_emitted >>
    /\ UNCHANGED << proc, cfg, elements, mainVars, jvVars, obsVars, vocVars, waitVars, now, stop, instrument, error,
                    start_time, source_voltage, probe_direction, cycle_start,
                    baseline_data, probe_data, better_voltage, cycles, datum, buffer >>

\* what config_buffer / start_buffer / wait_for_buffer can raise: nothing, or
\* a communication error of the instrument
AcqErrors == { None, "VisaIOError" }

\* history: one more acquisition begun while the stop flag is set (the count
\* saturates at two, "more than one")
AcqCount(n) == IF stop /\ n < 2 THEN n + 1 ELSE n

\* a variant of _measure that catches the acquisition error and reads the
\* buffer all the same
MeasureRaises_swallowed(err, fd) == fd.raised

\* _measure has no try: the error of the acquisition propagates, and
\* otherwise the error of format_data does
MeasureRaises(err, fd) == IF err # None THEN err ELSE fd.raised

\* variant: every record is emitted twice
Emit_twice(n) == n + 2

\* self.emit( 'results', ... ): one more record has been emitted
Emit(n) == n + 1

\* one pass of a sampling loop body: cycle_start, _measure_datum, append the
\* power, wait_for( _time_remaining( cycle_start, data_interval ) ).
\* The acquisition blocks for d seconds and raises err or returns the flat
\* buffer buf.
MPPSample(ret, d, err, buf) ==
    LET t  == now + d
        fd == format_data(buf)
        raised == MeasureRaises(err, fd)
        dt == MeasureDatum(fd.rows, t - start_time)
    IN  /\ now' = t
        /\ cycle_start' = now
        /\ acq_error' = err
        /\ acq_since_stop' = AcqCount(acq_since_stop)
        /\ IF raised # None
           THEN /\ error' = raised
                /\ pc' = "raised"
                /\ buffer' = IF err = None THEN buf ELSE buffer
                /\ UNCHANGED << powers, datum, waitVars, emitted >>
           ELSE /\ buffer' = buf
                /\ datum' = dt
                /\ emitted' = Emit(emitted)
                /\ powers' = Append(powers, dt.power)
                /\ EnterWait(t, time_remaining(t, now, cfg.data_interval), ret)
                /\ UNCHANGED error

\* _baseline: one pass of `while ( time.time() - self._last_probe_time ) <
\* self.probe_interval`
MPPBaselineSample ==
    /\ proc = "mpp"
    /\ pc = "baseline"
    /\ BaselineContinues(now, last_probe_time, cfg.probe_interval)
    /\ \E d \in Latencies, err \in AcqErrors, buf \in MPPBuffers :
            MPPSample("baseline", d, err, buf)
    /\ UNCHANGED << envVars, mainVars, jvVars, vocVars, stop, instrument, start_time, source_voltage,
                    probe_direction, last_probe_time, baseline_data, probe_data,
                    better_voltage, cycles, dwell_start >>

\* variant: the budget is tested again when _baseline returns, and the run
\* ends there when it has elapsed
MPPBaselineReturn_budgeted ==
    /\ proc = "mpp"
    /\ pc = "baseline"
    /\ ~BaselineContinues(now, last_probe_time, cfg.probe_interval)
    /\ IF FracLT1(mpp_progress)
       THEN /\ baseline_data' = [ v |-> source_voltage, p |-> powers ]
            /\ source_voltage' = ProbeVoltage(source_voltage, probe_direction, cfg.probe_step)
            /\ powers' = << >>
            /\ pc' = "probe"
       ELSE /\ pc' = "done"
            /\ UNCHANGED << baseline_data, source_voltage, powers >>
    /\ UNCHANGED << envVars, mainVars, jvVars, obsVars, vocVars, waitVars, now, stop, instrument, error,
                    start_time, probe_direction, last_probe_time, cycle_start,
                    probe_data, better_voltage, cycles, dwell_start, datum, buffer >>

\* _baseline returns ( source_voltage, powers ), then _probe sets the probe
\* voltage: source_voltage += direction* probe_step
MPPBaselineReturn ==
    /\ proc = "mpp"
    /\ pc = "baseline"
    /\ ~BaselineContinues(now, last_probe_time, cfg.probe_interval)
    /\ baseline_data' = [ v |-> source_voltage, p |-> powers ]
    /\ source_voltage' = ProbeVoltage(source_voltage, probe_direction, cfg.probe_step)
    /\ powers' = << >>
    /\ pc' = "probe"
    /\ UNCHANGED << envVars, mainVars, jvVars, obsVars, vocVars, waitVars, now, stop, instrument, error,
                    start_time, probe_direction, last_probe_time, cycle_start,
                    probe_data, better_voltage, cycles, dwell_start, datum, buffer >>

\* _probe: one pass of `for i in range( self.probe_points )`
MPPProbeSample ==
    /\ proc = "mpp"
    /\ pc = "probe"
    /\ Len(powers) < cfg.probe_points
    /\ \E d \in Latencies, err \in AcqErrors, buf \in MPPBuffers :
            MPPSample("probe", d, err, buf)
    /\ UNCHANGED << envVars, mainVars, jvVars, vocVars, stop, instrument, start_time, source_voltage,
                    probe_direction, last_probe_time, baseline_data, probe_data,
                    better_voltage, cycles, dwell_start >>

\* variant: _probe puts the baseline voltage back before it returns
MPPProbeReturn_restoring ==
    /\ proc = "mpp"
    /\ pc = "probe"
    /\ ~(Len(powers) < cfg.probe_points)
    /\ last_probe_time' = now
    /\ probe_data' = [ v |-> source_voltage, p |-> powers ]
    /\ source_voltage' = baseline_data.v
    /\ dwell_start' = now
    /\ pc' = "decide"
    /\ UNCHANGED << envVars, mainVars, jvVars, obsVars, vocVars, waitVars, now, stop, instrument, error,
                    start_time, probe_direction, powers, cycle_start,
                    baseline_data, better_voltage, cycles, datum, buffer >>

\* _probe returns: _last_probe_time = time.time(),
\* ( source_voltage, powers )
MPPProbeReturn ==
    /\ proc = "mpp"
    /\ pc = "probe"
    /\ ~(Len(powers) < cfg.probe_points)
    /\ last_probe_time' = now
    /\ probe_data' = [ v |-> source_voltage, p |-> powers ]
    /\ dwell_start' = now
    /\ pc' = "decide"
    /\ UNCHANGED << envVars, mainVars, jvVars, obsVars, vocVars, waitVars, now, stop, instrument, error,
                    start_time, source_voltage, probe_direction, powers, cycle_start,
                    baseline_data, better_voltage, cycles, datum, buffer >>

\* the decision of execute: _better_voltage, then flip and revert when the
\* better voltage equals the baseline voltage
MPPDecide ==
    /\ proc = "mpp"
    /\ pc = "decide"
    /\ LET bv == BetterVoltage(baseline_data, probe_data)
           baseline_voltage == baseline_data.v
       IN  /\ better_voltage' = bv
           /\ IF bv = baseline_voltage
              THEN /\ probe_direction' = probe_direction * (-1)
                   /\ source_voltage' = Revert(source_voltage, baseline_voltage)
              ELSE UNCHANGED << probe_direction, source_voltage >>
    /\ cycles' = cycles + 1
    /\ pc' = "loop"
    /\ UNCHANGED << envVars, mainVars, jvVars, obsVars, vocVars, waitVars, now, stop, instrument, error,
                    start_time, last_probe_time, powers, cycle_start,
                    baseline_data, probe_data, dwell_start, datum, buffer >>

----------------------------------------------------------------------------
(* The MPP run *)

NoDatum == [ time |-> 0, voltage |-> 0, current |-> 0, power |-> 0 ]
NoData  == [ v |-> 0, p |-> << >> ]

MPPConfigs ==
    { c \in [ run_time              : { [ num |-> k, den |-> SecondsPerMinute ] : k \in 1..MaxRunSeconds },
              probe_step            : { 0, 1 },
              initial_voltage       : { 0 },
              voltage_range         : { 2 },
              cell                  : { None },
              buffer_points         : { 1 },
              probe_points          : 0..MaxProbePoints,
              probe_interval        : 0..MaxInterval,
              data_interval         : { 0, MaxInterval },
              power_production_mode : BOOLEAN ] :
        \* every cycle acquires at least one sample, so the clock advances
        c.probe_points + c.probe_interval >= 1 }

\* the state in which execute is called, for a set of configurations
InitMPPIn(configs) ==
    /\ NoMain
    /\ proc = "mpp"
    /\ cfg \in configs
    /\ pc = "execute"
    /\ now = 0
    /\ stop = FALSE
    /\ instrument = "open"
    /\ start_time = NoTime
    /\ source_voltage = 0
    /\ probe_direction = 1
    /\ last_probe_time = NoTime
    /\ powers = << >>
    /\ cycle_start = 0
    /\ baseline_data = NoData
    /\ probe_data = NoData
    /\ better_voltage = 0
    /\ wait_end = 0
    /\ wait_ret = None
    /\ error = None
    /\ cycles = 0
    /\ dwell_start = NoTime
    /\ data = << >>
    /\ history = << >>
    /\ result = None
    /\ datum = NoDatum
    /\ buffer = << >>
    /\ emitted = 0
    /\ acq_error = None
    /\ acq_since_stop = 0
    /\ sweep_direction = 0
    /\ sweep_run_time = 0
    /\ commands = << >>
    /\ records = << >>

InitMPP == InitMPPIn(MPPConfigs)

NextMPP ==
    \/ MPPExecute
    \/ MPPLoopTest
    \/ MPPBaselineSample
    \/ MPPBaselineReturn
    \/ MPPProbeSample
    \/ MPPProbeReturn
    \/ MPPDecide
    \/ WaitPoll
    \/ WaitReturn
    \/ UserStop

SpecMPP == InitMPP /\ [][NextMPP]_vars

\* the run under the assumption that the procedure keeps being scheduled
\* and the clock advances (every step of the procedure is eventually taken)
MPPStep ==
    \/ MPPExecute
    \/ MPPLoopTest
    \/ MPPBaselineSample
    \/ MPPBaselineReturn
    \/ MPPProbeSample
    \/ MPPProbeReturn
    \/ MPPDecide
    \/ WaitPoll
    \/ WaitReturn

FairSpecMPP == InitMPP /\ [][MPPStep]_vars /\ WF_vars(MPPStep)

\* configurations with steps of two from an odd voltage, for any readings
GridConfigs ==
    [ run_time              : { [ num |-> k, den |-> SecondsPerMinute ] : k \in 1..MaxRunSeconds },
      probe_step            : { -2, 0, 2 },
      initial_voltage       : { 1 },
      voltage_range         : { 4 },
      cell                  : { None },
      buffer_points         : { 1 },
      probe_points          : { 1 },
      probe_interval        : 0..MaxInterval,
      data_interval         : { 0, MaxInterval },
      power_production_mode : BOOLEAN ]

InitGrid == InitMPPIn(GridConfigs)

SpecGrid == InitGrid /\ [][NextMPP]_vars

\* configurations with the cell: steps of two from an odd voltage at, below
\* or above the peak, and a baseline of at least one sample
ClimbConfigs ==
    [ run_time              : { [ num |-> k, den |-> SecondsPerMinute ] : k \in 1..MaxRunSeconds },
      probe_step            : { 2 },
      initial_voltage       : { 1, 3, 5 },
      voltage_range         : { 9 },
      cell                  : { "cell" },
      buffer_points         : { 1 },
      probe_points          : { 1 },
      probe_interval        : 1..MaxInterval,
      data_interval         : { MaxInterval },
      power_production_mode : BOOLEAN ]

InitClimb == InitMPPIn(ClimbConfigs)

SpecClimb == InitClimb /\ [][NextMPP]_vars

----------------------------------------------------------------------------
(* Voc_Procedure *)

MaxThresholdPoints == 2   \* threshold_points ranges over 0..MaxThresholdPoints
MaxVocSeconds == 3        \* max_time ranges over 1..MaxVocSeconds

\* `def _extract_voltage( self, data )` declares two positional parameters
ExtractVoltageParams == 2

\* `self._extract_voltage( data )` on a @staticmethod passes one argument:
\* a static method is not bound to self
ExtractVoltageArgs == 1

\* Voc_Procedure.progress, as a fraction num / den
voc_progress ==
    IF start_time = NoTime
    THEN Whole(0)
    ELSE CapAt1(Divide(time_elapsed, cfg.max_time))

\* Voc_Procedure._measure, given the formatted rows and self.time_elapsed
VocMeasure(rows, elapsed) ==
    [ time    |-> elapsed - Mean(Column(rows, Index(Elements, "TIME"))),
      voltage |-> Mean(Column(rows, Index(Elements, "VOLT"))),
      current |-> Mean(Column(rows, Index(Elements, "CURR"))) ]

\* numpy std() <= threshold for a sequence of numbers: the population
\* variance ( n sum( x^2 ) - sum( x )^2 ) / n^2 against threshold^2; the std
\* of an empty array is nan, which compares False
StdLE(v, threshold) ==
    LET n == Len(v)
    IN  /\ n > 0
        /\ n * SumSeq([ i \in 1..n |-> v[i] * v[i] ]) - SumSeq(v) * SumSeq(v)
             <= threshold * threshold * n * n

\* the call self._extract_voltage( data ): TypeError when the number of
\* arguments passed differs from the number of parameters
extract_voltage(window) ==
    IF ExtractVoltageArgs # ExtractVoltageParams
    THEN [ raised |-> "TypeError", value |-> << >> ]
    ELSE [ raised |-> None, value |-> [ i \in 1..Len(window) |-> window[i].voltage ] ]

\* Voc_Procedure._settled( data )
settled(window) ==
    LET voltage == extract_voltage(window)
    IN  IF voltage.raised # None
        THEN [ raised |-> voltage.raised, value |-> FALSE ]
        ELSE [ raised |-> None, value |-> StdLE(voltage.value, cfg.std_threshold) ]

\* the window update of execute: data.append( datum ), then
\* `if len( data ) > threshold_points: data = data[ : -threshold_points ]`
WindowUpdate(window, d, threshold_points) ==
    LET appended == Append(window, d)
    IN  IF Len(appended) > threshold_points
        THEN PySliceTo(appended, -threshold_points)
        ELSE appended

\* buffers read during a Voc run
VocBuffers == FlatBuffers(cfg.buffer_points, {0, 2}, {0}, {1})

\* execute up to the while loop
VocExecute ==
    /\ proc = "voc"
    /\ pc = "execute"
    /\ start_time' = now
    /\ data' = << >>
    /\ pc' = "loop"
    /\ UNCHANGED << envVars, mainVars, jvVars, obsVars, mppLocals, waitVars, now, stop, instrument, error,
                    source_voltage, last_probe_time, history, result, datum, buffer >>

\* what instrument.buffer_data can return once the acquisition has failed and
\* the instrument is shut down: a buffer of an earlier acquisition, or a
\* partly filled one
StaleBuffers == VocBuffers \cup { << 0 >> }

\* variant: the settled test is run on every window
SettledTestDue_always(window, threshold_points) == TRUE

\* `if len( data ) >= self.threshold_points`: only check settled if enough
\* points have been taken
SettledTestDue(window, threshold_points) == Len(window) >= threshold_points

\* the rest of a pass once _get_data has returned buf at time t: format_data,
\* the means, emit, the window update, the settled test, then
\* wait_for( data_interval, interval = data_interval/ 5 )
VocTickRest(t, buf) ==
    LET fd == format_data(buf)
        dt == VocMeasure(fd.rows, t - start_time)
        w  == WindowUpdate(data, dt, cfg.threshold_points)
        st == IF SettledTestDue(w, cfg.threshold_points)
              THEN settled(w)
              ELSE [ raised |-> None, value |-> FALSE ]
    IN  /\ buffer' = buf
        /\ IF fd.raised # None
           THEN /\ error' = fd.raised
                /\ pc' = "raised"
                /\ UNCHANGED << datum, emitted, history, data, result, waitVars >>
           ELSE /\ datum' = dt
                /\ emitted' = Emit(emitted)
                /\ history' = Append(history, dt.voltage)
                /\ data' = w
                /\ IF st.raised # None
                   THEN /\ error' = st.raised
                        /\ pc' = "raised"
                        /\ UNCHANGED << result, waitVars >>
                   ELSE IF st.value
                   THEN /\ result' = "Settled"
                        /\ pc' = "done"
                        /\ UNCHANGED << error, waitVars >>
                   ELSE /\ EnterWait(t, cfg.data_interval, "loop")
                        /\ UNCHANGED << error, result >>

\* one pass of `while self.progress < 1`. The acquisition of _get_data blocks
\* for d seconds; it returns the flat buffer buf, or raises err, which the
\* except clause catches: log, self.shutdown().
VocTick ==
    /\ proc = "voc"
    /\ pc = "loop"
    /\ FracLT1(voc_progress)
    /\ \E d \in Latencies, err \in AcqErrors, buf \in VocBuffers :
         /\ now' = now + d
         /\ acq_error' = err
         /\ acq_since_stop' = AcqCount(acq_since_stop)
         /\ IF err = None
            THEN /\ VocTickRest(now + d, buf)
                 /\ UNCHANGED instrument
            ELSE /\ instrument' = shutdown(instrument)
                 /\ pc' = "get_data_except"
                 /\ UNCHANGED << vocVars, waitVars, error, datum, buffer, emitted >>
    /\ UNCHANGED << envVars, mainVars, jvVars, mppLocals, stop, start_time,
                    source_voltage, last_probe_time >>

\* _get_data after its except clause: `data = self.instrument.buffer_data`
\* is read from the instrument that was shut down; the read raises or returns
\* a buffer, and with a buffer the pass goes on
VocReadAfterShutdown ==
    /\ proc = "voc"
    /\ pc = "get_data_except"
    /\ \/ \E buf \in StaleBuffers : VocTickRest(now, buf)
       \/ /\ error' = "VisaIOError"
          /\ pc' = "raised"
          /\ UNCHANGED << vocVars, waitVars, datum, buffer, emitted >>
    /\ UNCHANGED << envVars, mainVars, jvVars, mppLocals, now, stop, instrument, start_time,
                    source_voltage, last_probe_time, acq_error, acq_since_stop >>

\* the while loop ends because progress reached 1
VocTimeout ==
    /\ proc = "voc"
    /\ pc = "loop"
    /\ ~FracLT1(voc_progress)
    /\ result' = "TimedOut"
    /\ pc' = "done"
    /\ UNCHANGED << envVars, mainVars, jvVars, obsVars, mppLocals, waitVars, now, stop, instrument, error,
                    start_time, source_voltage, last_probe_time, data, history,
                    datum, buffer >>

VocConfigs ==
    [ std_threshold    : { 0, 1 },
      threshold_points : 0..MaxThresholdPoints,
      data_interval    : { 0, 5 },
      max_time         : 1..MaxVocSeconds,
      buffer_points    : { 1 } ]

InitVoc ==
    /\ NoMain
    /\ proc = "voc"
    /\ cfg \in VocConfigs
    /\ pc = "execute"
    /\ now = 0
    /\ stop = FALSE
    /\ instrument = "open"
    /\ start_time = NoTime
    /\ source_voltage = 0
    /\ probe_direction = 1
    /\ last_probe_time = NoTime
    /\ powers = << >>
    /\ cycle_start = 0
    /\ baseline_data = NoData
    /\ probe_data = NoData
    /\ better_voltage = 0
    /\ wait_end = 0
    /\ wait_ret = None
    /\ error = None
    /\ cycles = 0
    /\ dwell_start = NoTime
    /\ data = << >>
    /\ history = << >>
    /\ result = None
    /\ datum = NoDatum
    /\ buffer = << >>
    /\ emitted = 0
    /\ acq_error = None
    /\ acq_since_stop = 0
    /\ sweep_direction = 0
    /\ sweep_run_time = 0
    /\ commands = << >>
    /\ records = << >>

NextVoc ==
    \/ VocExecute
    \/ VocTick
    \/ VocReadAfterShutdown
    \/ VocTimeout
    \/ WaitPoll
    \/ WaitReturn
    \/ UserStop

SpecVoc == InitVoc /\ [][NextVoc]_vars

----------------------------------------------------------------------------
(* JVScan_Procedure: startup, execute, _sweep, and the shutdown that ends *)
(* the run                                                                  *)

MaxSweepPoints == 2   \* a sweep has 1..MaxSweepPoints points

\* `time.sleep( self.run_time* 1.1 )`: the duration of the sleep of _sweep
SweepSleep(run_time) == (run_time * 11) \div 10

\* what 'fetch?' answers after a sweep: voltage, current of each point, or a
\* reading cut short
JVBuffers ==
    { << v1, i1 >> : v1 \in {0, 1}, i1 \in {1, 2} }
      \cup { << v1, i1, v2, i2 >> : v1 \in {0}, i1 \in {1, 2}, v2 \in {1}, i2 \in {1, 2} }
      \cup { << 0 >> }

\* one command sent to the instrument at time t
Cmd(c, a, t) == [ cmd |-> c, arg |-> a, at |-> t ]

\* variant: the step is written as configured
SweepStep_asConfigured(start_voltage, end_voltage, voltage_step) == voltage_step

\* startup: the step is negated when it points away from the end voltage
SweepStep(start_voltage, end_voltage, voltage_step) ==
    IF \/ start_voltage > end_voltage /\ voltage_step > 0
       \/ start_voltage < end_voltage /\ voltage_step < 0
    THEN voltage_step * (-1)
    ELSE voltage_step

\* self.run_time = sweep_points* ( self.settle_time + self.buffer_points* 0.02 )
SweepRunTime(sweep_points, settle_time, buffer_points) ==
    sweep_points * (settle_time + (buffer_points * 2) \div 100)

\* variant: startup does not look at the port
PortMissing_ignored(port) == FALSE

\* Keithley2400_Procedure.startup: `if self.port is None`
PortMissing(port) == port = None

\* Keithley2400_Procedure.startup and JVScan_Procedure.startup: without a
\* port RuntimeError is raised before the instrument is created; otherwise
\* the instrument is created and the sweep is written to it
JVStartup ==
    /\ proc = "jv"
    /\ pc = "startup"
    /\ IF PortMissing(cfg.port)
       THEN /\ error' = "RuntimeError"
            /\ pc' = "raised"
            /\ UNCHANGED << instrument, commands, sweep_run_time >>
       ELSE /\ instrument' = "open"
            /\ commands' = commands \o
                 << Cmd("reset", 0, now),
                    Cmd(":source:voltage:start", cfg.start_voltage, now),
                    Cmd(":source:voltage:stop", cfg.end_voltage, now),
                    Cmd(":source:voltage:step",
                        SweepStep(cfg.start_voltage, cfg.end_voltage, cfg.voltage_step), now),
                    Cmd(":source:sweep:points?", 0, now) >>
            /\ sweep_run_time' =
                 SweepRunTime(cfg.sweep_points, cfg.settle_time, cfg.buffer_points)
            /\ pc' = "execute"
            /\ UNCHANGED error
    /\ UNCHANGED << envVars, mainVars, obsVars, mppLocals, vocVars, waitVars, now, stop, start_time,
                    source_voltage, last_probe_time, datum, buffer, sweep_direction,
                    records >>

\* variant: every direction other than 1 sweeps down
SweepBegin_noCheck(dir, t, cmds) ==
    /\ sweep_direction' = dir
    /\ commands' = cmds \o
         << Cmd(IF dir = 1 THEN ":source:sweep:direction up"
                           ELSE ":source:sweep:direction down", 0, t),
            Cmd("initiate", 0, t) >>
    /\ pc' = "sweep_sleep"
    /\ UNCHANGED error

\* the head of _sweep called at time t after the commands cmds: a direction
\* other than 1 and -1 raises ValueError; otherwise the direction is written
\* to the instrument, then 'initiate'
SweepBegin(dir, t, cmds) ==
    /\ sweep_direction' = dir
    /\ IF dir \in { 1, -1 }
       THEN /\ commands' = cmds \o
                 << Cmd(IF dir = 1 THEN ":source:sweep:direction up"
                                   ELSE ":source:sweep:direction down", 0, t),
                    Cmd("initiate", 0, t) >>
            /\ pc' = "sweep_sleep"
            /\ UNCHANGED error
       ELSE /\ commands' = cmds
            /\ pc' = "raised"
            /\ error' = "ValueError"

\* execute: enable_source, then self._sweep() with the default direction 1
JVExecute ==
    /\ proc = "jv"
    /\ pc = "execute"
    /\ start_time' = now
    /\ SweepBegin(1, now, Append(commands, Cmd("enable_source", 0, now)))
    /\ UNCHANGED << envVars, mainVars, obsVars, mppLocals, vocVars, waitVars, now, stop, instrument,
                    source_voltage, last_probe_time, datum, buffer, sweep_run_time,
                    records >>

\* _sweep: time.sleep( self.run_time* 1.1 ), one uninterrupted sleep
JVSweepSleep ==
    /\ proc = "jv"
    /\ pc = "sweep_sleep"
    /\ now' = now + SweepSleep(sweep_run_time)
    /\ pc' = "fetch"
    /\ UNCHANGED << envVars, mainVars, jvVars, obsVars, mppLocals, vocVars, waitVars, stop, instrument,
                    error, start_time, source_voltage, last_probe_time, datum, buffer >>

\* the record _sweep emits for one row, tagged with the pass that made it
JVRecord(row, pass) ==
    [ voltage |-> row[Index(Elements, "VOLT")],
      current |-> row[Index(Elements, "CURR")],
      power   |-> row[Index(Elements, "CURR")] * row[Index(Elements, "VOLT")],
      pass    |-> pass ]

\* variant: execute sweeps back whatever full_sweep says
AfterSweep_alwaysBack(dir, full_sweep) == IF dir = 1 THEN "settle" ELSE "done"

\* execute after a sweep has returned: `if self.full_sweep` follows the
\* forward sweep only
AfterSweep(dir, full_sweep) == IF dir = 1 /\ full_sweep THEN "settle" ELSE "done"

\* _sweep: 'fetch?', format_data, one record per row; then back in execute
JVFetch ==
    /\ proc = "jv"
    /\ pc = "fetch"
    /\ commands' = Append(commands, Cmd("fetch?", 0, now))
    /\ \E buf \in JVBuffers :
         LET fd == format_data(buf)
         IN  /\ Len(buf) <= 2 * cfg.sweep_points
             /\ buffer' = buf
             /\ IF fd.raised # None
                THEN /\ error' = fd.raised
                     /\ pc' = "raised"
                     /\ UNCHANGED << data, emitted, records >>
                ELSE /\ data' = fd.rows
                     /\ emitted' = emitted + Len(fd.rows)
                     /\ records' = records \o
                          [ r \in 1..Len(fd.rows) |-> JVRecord(fd.rows[r], sweep_direction) ]
                     /\ pc' = AfterSweep(sweep_direction, cfg.full_sweep)
                     /\ UNCHANGED error
    /\ UNCHANGED << envVars, mainVars, mppLocals, waitVars, now, stop, instrument,
                    start_time, source_voltage, last_probe_time, datum, history,
                    result, acq_error, acq_since_stop, sweep_direction, sweep_run_time >>

\* execute: time.sleep( self.settle_time ), then self._sweep( -1 )
JVSettle ==
    /\ proc = "jv"
    /\ pc = "settle"
    /\ now' = now + cfg.settle_time
    /\ SweepBegin(-1, now + cfg.settle_time, commands)
    /\ UNCHANGED << envVars, mainVars, obsVars, mppLocals, vocVars, waitVars, stop, instrument,
                    start_time, source_voltage, last_probe_time, datum, buffer,
                    sweep_run_time, records >>

\* the run is over (execute returned or an error left startup or execute):
\* shutdown is called; it commands the instrument only if there is one
ProcShutdown ==
    /\ proc = "jv"
    /\ pc \in { "done", "raised" }
    /\ IF instrument # None
       THEN /\ instrument' = shutdown(instrument)
            /\ commands' = Append(commands, Cmd("shutdown", 0, now))
       ELSE UNCHANGED << instrument, commands >>
    /\ pc' = "closed"
    /\ UNCHANGED << envVars, mainVars, obsVars, mppLocals, vocVars, waitVars, now, stop, error,
                    start_time, source_voltage, last_probe_time, datum, buffer,
                    sweep_direction, sweep_run_time, records >>

\* voltages in whole units; settle_time and buffer_points* 0.02 in multiples
\* of 10 s, so that run_time* 1.1 is a whole number of seconds; sweep_points
\* is what the instrument answers to ':source:sweep:points?'
JVConfigs ==
    [ port          : { None, "GPIB0::24" },
      start_voltage : { 0, 1 },
      end_voltage   : { 0, 1 },
      voltage_step  : { -2, -1, 1, 2 },
      settle_time   : { 0, 10 },
      buffer_points : { 500 },
      sweep_points  : 1..MaxSweepPoints,
      full_sweep    : BOOLEAN ]

InitJV ==
    /\ NoMain
    /\ proc = "jv"
    /\ cfg \in JVConfigs
    /\ pc = "startup"
    /\ now = 0
    /\ stop = FALSE
    /\ instrument = None
    /\ start_time = NoTime
    /\ source_voltage = 0
    /\ probe_direction = 1
    /\ last_probe_time = NoTime
    /\ powers = << >>
    /\ cycle_start = 0
    /\ baseline_data = NoData
    /\ probe_data = NoData
    /\ better_voltage = 0
    /\ wait_end = 0
    /\ wait_ret = None
    /\ error = None
    /\ cycles = 0
    /\ dwell_start = NoTime
    /\ data = << >>
    /\ history = << >>
    /\ result = None
    /\ datum = NoDatum
    /\ buffer = << >>
    /\ emitted = 0
    /\ acq_error = None
    /\ acq_since_stop = 0
    /\ sweep_direction = 0
    /\ sweep_run_time = 0
    /\ commands = << >>
    /\ records = << >>

NextJV ==
    \/ JVStartup
    \/ JVExecute
    \/ JVSweepSleep
    \/ JVFetch
    \/ JVSettle
    \/ ProcShutdown
    \/ UserStop

SpecJV == InitJV /\ [][NextJV]_vars

----------------------------------------------------------------------------
(* JVScan_Procedure._sweep called on its own, with any direction, on a     *)
(* procedure that has been started                                          *)

MaxDirection == 3   \* the direction argument ranges over -MaxDirection..MaxDirection

\* the call self._sweep( direction )
JVSweepCall ==
    /\ proc = "jv"
    /\ pc = "sweep_call"
    /\ SweepBegin(sweep_direction, now, commands)
    /\ UNCHANGED << envVars, mainVars, obsVars, mppLocals, vocVars, waitVars, now, stop, instrument,
                    start_time, source_voltage, last_probe_time, datum, buffer,
                    sweep_run_time, records >>

\* the call is not made from execute: no second sweep follows
SweepConfigs == { c \in JVConfigs : c.port # None /\ ~c.full_sweep /\ c.start_voltage = 0
                                    /\ c.end_voltage = 1 /\ c.voltage_step = 1 }

InitSweep ==
    /\ NoMain
    /\ proc = "jv"
    /\ cfg \in SweepConfigs
    /\ pc = "sweep_call"
    /\ sweep_direction \in (-MaxDirection)..MaxDirection
    /\ sweep_run_time = SweepRunTime(cfg.sweep_points, cfg.settle_time, cfg.buffer_points)
    /\ now = 0
    /\ stop = FALSE
    /\ instrument = "open"
    /\ start_time = 0
    /\ source_voltage = 0
    /\ probe_direction = 1
    /\ last_probe_time = NoTime
    /\ powers = << >>
    /\ cycle_start = 0
    /\ baseline_data = NoData
    /\ probe_data = NoData
    /\ better_voltage = 0
    /\ wait_end = 0
    /\ wait_ret = None
    /\ error = None
    /\ cycles = 0
    /\ dwell_start = NoTime
    /\ data = << >>
    /\ history = << >>
    /\ result = None
    /\ datum = NoDatum
    /\ buffer = << >>
    /\ emitted = 0
    /\ acq_error = None
    /\ acq_since_stop = 0
    /\ commands = << >>
    /\ records = << >>

NextSweep ==
    \/ JVSweepCall
    \/ JVSweepSleep
    \/ JVFetch

SpecSweep == InitSweep /\ [][NextSweep]_vars

----------------------------------------------------------------------------
(* The progress property of the Voc and MPP procedures on its own: the     *)
(* procedure is constructed, execute sets the start time, the clock runs   *)

MaxBudget == 3   \* run_time* 60 and max_time range over -1..MaxBudget seconds
MaxClock == 4    \* the clock runs from 0 to MaxClock

\* the progress property of the procedure
Progress == IF proc = "mpp" THEN mpp_progress ELSE voc_progress

\* the time budget of the procedure, in seconds, as a fraction
Budget ==
    IF proc = "mpp" THEN RunSeconds(cfg.run_time)
    ELSE [ num |-> cfg.max_time, den |-> 1 ]

\* execute: self._start_time = time.time()
ProgressExecute ==
    /\ proc \in { "mpp", "voc" }
    /\ pc = "execute"
    /\ start_time' = now
    /\ pc' = "running"
    /\ UNCHANGED << envVars, mainVars, jvVars, obsVars, mppLocals, vocVars, waitVars, now, stop,
                    instrument, error, source_voltage, last_probe_time, datum, buffer >>

\* time passes, before or after execute has started
ClockTick ==
    /\ pc \in { "execute", "running" }
    /\ now < MaxClock
    /\ now' = now + 1
    /\ UNCHANGED << envVars, mainVars, jvVars, obsVars, mppLocals, vocVars, waitVars, pc, stop,
                    instrument, error, start_time, source_voltage, last_probe_time,
                    datum, buffer >>

\* the parameters have no minimum: a budget may be zero or negative
ProgressConfigs ==
    { [ run_time |-> [ num |-> k, den |-> SecondsPerMinute ], max_time |-> k ] :
        k \in (-1)..MaxBudget }

InitProgress ==
    /\ NoMain
    /\ proc \in { "mpp", "voc" }
    /\ cfg \in ProgressConfigs
    /\ pc = "execute"
    /\ now = 0
    /\ stop = FALSE
    /\ instrument = "open"
    /\ start_time = NoTime
    /\ source_voltage = 0
    /\ probe_direction = 1
    /\ last_probe_time = NoTime
    /\ powers = << >>
    /\ cycle_start = 0
    /\ baseline_data = NoData
    /\ probe_data = NoData
    /\ better_voltage = 0
    /\ wait_end = 0
    /\ wait_ret = None
    /\ error = None
    /\ cycles = 0
    /\ dwell_start = NoTime
    /\ data = << >>
    /\ history = << >>
    /\ result = None
    /\ datum = NoDatum
    /\ buffer = << >>
    /\ emitted = 0
    /\ acq_error = None
    /\ acq_since_stop = 0
    /\ sweep_direction = 0
    /\ sweep_run_time = 0
    /\ commands = << >>
    /\ records = << >>

NextProgress ==
    \/ ProgressExecute
    \/ ClockTick

SpecProgress == InitProgress /\ [][NextProgress]_vars

----------------------------------------------------------------------------
(* format_data on its own: a procedure whose elements are set is handed a  *)
(* flat sequence of any length                                              *)

MaxFlatLen == 6   \* the flat sequence has 0..MaxFlatLen values

\* the sequences of length n over the values 0 and 1
FlatSeqs(n) == [ 1..n -> { 0, 1 } ]

\* data = self.format_data( data ): the call returns the rows or raises
FormatData ==
    /\ pc = "format"
    /\ LET fd == format_data(buffer)
       IN  IF fd.raised # None
           THEN /\ error' = fd.raised
                /\ pc' = "raised"
                /\ UNCHANGED data
           ELSE /\ data' = fd.rows
                /\ pc' = "formatted"
                /\ UNCHANGED error
    /\ UNCHANGED << envVars, mainVars, jvVars, obsVars, mppLocals, waitVars, now, stop, instrument,
                    start_time, source_voltage, last_probe_time, history, result,
                    datum, buffer >>

InitFormat ==
    /\ NoMain
    /\ proc \in { "mpp", "jv" }
    /\ cfg = [ buffer_points |-> 1 ]
    /\ buffer \in UNION { FlatSeqs(n) : n \in 0..MaxFlatLen }
    /\ pc = "format"
    /\ now = 0
    /\ stop = FALSE
    /\ instrument = "open"
    /\ start_time = NoTime
    /\ source_voltage = 0
    /\ probe_direction = 1
    /\ last_probe_time = NoTime
    /\ powers = << >>
    /\ cycle_start = 0
    /\ baseline_data = NoData
    /\ probe_data = NoData
    /\ better_voltage = 0
    /\ wait_end = 0
    /\ wait_ret = None
    /\ error = None
    /\ cycles = 0
    /\ dwell_start = NoTime
    /\ data = << >>
    /\ history = << >>
    /\ result = None
    /\ datum = NoDatum
    /\ emitted = 0
    /\ acq_error = None
    /\ acq_since_stop = 0
    /\ sweep_direction = 0
    /\ sweep_run_time = 0
    /\ commands = << >>
    /\ records = << >>

SpecFormat == InitFormat /\ [][FormatData]_vars

----------------------------------------------------------------------------
(* The window update of Voc execute on its own: the loop of execute from   *)
(* its empty window, each tick reduced to the append and the pruning        *)

MaxTicks == 4   \* number of ticks

VocDatum(v) == [ time |-> 0, voltage |-> v, current |-> 0 ]

Voltages(window) == [ i \in 1..Len(window) |-> window[i].voltage ]

\* one tick of the loop of execute, reduced to lines 145-148
WindowTick ==
    /\ proc = "window"
    /\ cycles < MaxTicks
    /\ \E v \in {0, 1, 2} :
         /\ data' = WindowUpdate(data, VocDatum(v), cfg.threshold_points)
         /\ history' = Append(history, v)
    /\ cycles' = cycles + 1
    /\ UNCHANGED << envVars, mainVars, jvVars, obsVars, waitVars, pc, now, stop, instrument, error, start_time,
                    source_voltage, last_probe_time, probe_direction, powers,
                    cycle_start, baseline_data, probe_data, better_voltage,
                    dwell_start, result, datum, buffer >>

InitWindow ==
    /\ NoMain
    /\ proc = "window"
    /\ cfg \in [ threshold_points : 0..MaxThresholdPoints ]
    /\ data = << >>
    /\ history = << >>
    /\ pc = "loop"
    /\ now = 0
    /\ stop = FALSE
    /\ instrument = "open"
    /\ start_time = 0
    /\ source_voltage = 0
    /\ probe_direction = 1
    /\ last_probe_time = NoTime
    /\ powers = << >>
    /\ cycle_start = 0
    /\ baseline_data = NoData
    /\ probe_data = NoData
    /\ better_voltage = 0
    /\ wait_end = 0
    /\ wait_ret = None
    /\ error = None
    /\ cycles = 0
    /\ dwell_start = NoTime
    /\ result = None
    /\ datum = NoDatum
    /\ buffer = << >>
    /\ emitted = 0
    /\ acq_error = None
    /\ acq_since_stop = 0
    /\ sweep_direction = 0
    /\ sweep_run_time = 0
    /\ commands = << >>
    /\ records = << >>

SpecWindow == InitWindow /\ [][WindowTick]_vars

----------------------------------------------------------------------------
(* main(): the orchestrator of src/main.py.  It runs the enabled stages in
   the order Voc, JV, MPP, each in a pymeasure Worker thread, and seeds each
   stage from the records of the one before.  Voltages are whole numbers of
   hundredths of a volt, so that 0.62 V is 62 and a step of 0.01 V is 1. *)

MaxVocRows == 2   \* the Voc stage writes 0..MaxVocRows records
MaxJVRows == 2    \* the JV stage writes 0..MaxJVRows records
MaxTail == 2      \* voc_proc.threshold_points ranges over 1..MaxTail

Stages == { "voc", "jv", "mpp" }

\* voltages the Voc stage can record, 0.62 V among them
VocVoltages == { -3, 2, 62 }

\* ( voltage, current ) rows a JV sweep can return: two of them have the same
\* power at different voltages
JVRows == { << 1, 2 >>, << 2, 1 >>, << 2, -1 >> }

\* df.tail( n ): the last n rows, all of them when there are fewer
TailRows(s, n) == SubSeq(s, IF Len(s) > n THEN Len(s) - n + 1 ELSE 1, Len(s))

\* Series.mean() of a non-empty column, as the fraction sum / count
SeriesMean(s) == [ num |-> SumSeq(s), den |-> Len(s) ]

\* math.floor( n / d ) for d > 0
Floor(n, d) == n \div d

\* variant: the next whole number, also above a whole quotient
Ceil_next(n, d) == (n \div d) + 1

\* math.ceil( n / d ) for d > 0
Ceil(n, d) == -((-n) \div d)

\* variant: the number of steps is always rounded down
end_voc_floored(v, voltage_step) ==
    LET n == IF voltage_step < 0 THEN -v.num ELSE v.num
        d == IF voltage_step < 0 THEN -(v.den * voltage_step) ELSE v.den * voltage_step
    IN  Floor(n, d) * voltage_step

\* end_voc of main: voc_measured / voltage_step, rounded up when positive
\* and down otherwise, times voltage_step
end_voc(v, voltage_step) ==
    LET n == IF voltage_step < 0 THEN -v.num ELSE v.num
        d == IF voltage_step < 0 THEN -(v.den * voltage_step) ELSE v.den * voltage_step
    IN  (IF n > 0 THEN Ceil(n, d) ELSE Floor(n, d)) * voltage_step

\* variant: the greatest power is looked for in both modes
v_mpp_index_alwaysMax(recs, power_production_mode) ==
    CHOOSE i \in 1..Len(recs) :
        /\ \A j \in 1..Len(recs) : recs[j].power <= recs[i].power
        /\ \A j \in 1..(i - 1) : recs[j].power # recs[i].power

\* jv_df.idxmax()[ 'power [W]' ] or jv_df.idxmin()[ 'power [W]' ]: the row
\* of the first occurrence of the extreme power
v_mpp_index(recs, power_production_mode) ==
    CHOOSE i \in 1..Len(recs) :
        /\ \A j \in 1..Len(recs) :
              IF power_production_mode THEN recs[j].power <= recs[i].power
                                       ELSE recs[j].power >= recs[i].power
        /\ \A j \in 1..(i - 1) : recs[j].power # recs[i].power

\* a Worker thread: where it is, and its should_stop flag
WorkerAt(w) == workers[w].at
Started(w, ws) == [ ws EXCEPT ![w] = [ at |-> "started", should_stop |-> FALSE ] ]

\* what main leaves alone in every step
mainFrame == << envVars, pc, now, stop, instrument, start_time, source_voltage,
                last_probe_time, error, datum, buffer, mppLocals, waitVars, obsVars,
                data, result, sweep_direction, sweep_run_time, commands >>

\* variant: the Voc stage is started whatever run_voc says
MainStartVoc_always ==
    /\ main_pc = "voc"
    /\ workers' = Started("voc", workers)
    /\ main_pc' = "voc_wait"
    /\ UNCHANGED << mainFrame, history, records, jv_proc, mpp_proc, voc_measured >>

\* `if run_voc:` ... `voc.start()`
MainStartVoc ==
    /\ main_pc = "voc"
    /\ IF cfg.run_voc
       THEN workers' = Started("voc", workers) /\ main_pc' = "voc_wait"
       ELSE UNCHANGED workers /\ main_pc' = "jv"
    /\ UNCHANGED << mainFrame, history, records, jv_proc, mpp_proc, voc_measured >>

\* `if run_jv:` ... `jv.start()`
MainStartJV ==
    /\ main_pc = "jv"
    /\ IF cfg.run_jv
       THEN workers' = Started("jv", workers) /\ main_pc' = "jv_wait"
       ELSE UNCHANGED workers /\ main_pc' = "mpp"
    /\ UNCHANGED << mainFrame, history, records, jv_proc, mpp_proc, voc_measured >>

\* `if run_mpp:` ... `mpp.start()`; main returns without joining
MainStartMPP ==
    /\ main_pc = "mpp"
    /\ workers' = IF cfg.run_mpp THEN Started("mpp", workers) ELSE workers
    /\ main_pc' = "end"
    /\ UNCHANGED << mainFrame, history, records, jv_proc, mpp_proc, voc_measured >>

\* variant: join gives up when its timeout has passed
ThreadEnded_orTimeout(at) == TRUE

\* Thread.join() without a timeout returns once the thread has ended
ThreadEnded(at) == at = "ended"

\* `voc.join( max_time* 1.5 )` and `jv.join( jv_run_time* 2 )`, first half:
\* the Worker's join waits until should_stop is set or the timeout passes,
\* and then sets should_stop itself
MainJoinWait ==
    \E w \in { "voc", "jv" } :
        /\ main_pc = w \o "_wait"
        /\ workers' = [ workers EXCEPT ![w].should_stop = TRUE ]
        /\ main_pc' = w \o "_join"
        /\ UNCHANGED << mainFrame, history, records, jv_proc, mpp_proc, voc_measured >>

\* second half of the join: wait, without a timeout, for the thread to end
MainJoined ==
    \E w \in { "voc", "jv" } :
        /\ main_pc = w \o "_join"
        /\ ThreadEnded(WorkerAt(w))
        /\ main_pc' = w \o "_read"
        /\ UNCHANGED << mainFrame, workers, history, records, jv_proc, mpp_proc,
                        voc_measured >>

\* after the Voc stage: read voc.csv, average the last threshold_points
\* voltages and set the JV end voltage; the mean of no rows is NaN, which
\* math.floor refuses
MainReadVoc ==
    /\ main_pc = "voc_read"
    /\ IF history = << >>
       THEN /\ main_pc' = "crashed"
            /\ UNCHANGED << voc_measured, jv_proc >>
       ELSE /\ voc_measured' = SeriesMean(TailRows(history, cfg.threshold_points))
            /\ jv_proc' = [ jv_proc EXCEPT
                              !.end_voltage = end_voc(voc_measured', jv_proc.voltage_step) ]
            /\ main_pc' = "jv"
    /\ UNCHANGED << mainFrame, workers, history, records, mpp_proc >>

\* after the JV stage: read jv.csv, find the row of the extreme power and
\* set the MPP initial voltage; idxmax / idxmin of no rows raises
MainReadJV ==
    /\ main_pc = "jv_read"
    /\ IF records = << >>
       THEN /\ main_pc' = "crashed"
            /\ UNCHANGED mpp_proc
       ELSE /\ mpp_proc' = [ mpp_proc EXCEPT
                               !.initial_voltage =
                                   records[v_mpp_index(records,
                                       mpp_proc.power_production_mode)].voltage ]
            /\ main_pc' = "mpp"
    /\ UNCHANGED << mainFrame, workers, history, records, jv_proc, voc_measured >>

\* Worker.run: the procedure's startup makes the instrument, or raises
WorkerStartup ==
    \E w \in Stages, raises \in BOOLEAN :
        /\ WorkerAt(w) = "started"
        /\ workers' = [ workers EXCEPT ![w] =
                          IF raises THEN [ at |-> "ended", should_stop |-> TRUE ]
                                    ELSE [ @ EXCEPT !.at = "holding" ] ]
        /\ UNCHANGED << mainFrame, main_pc, history, records, jv_proc, mpp_proc,
                        voc_measured >>

\* the Voc procedure emits one record
WorkerEmitVoc ==
    \E v \in VocVoltages :
        /\ WorkerAt("voc") = "holding"
        /\ Len(history) < MaxVocRows
        /\ history' = Append(history, v)
        /\ UNCHANGED << mainFrame, mainVars, records >>

\* the JV procedure emits one record, of the forward pass or, after it, of
\* the reverse pass
WorkerEmitJV ==
    \E row \in JVRows, pass \in { 1, -1 } :
        /\ WorkerAt("jv") = "holding"
        /\ Len(records) < MaxJVRows
        /\ records # << >> /\ records[Len(records)].pass = -1 => pass = -1
        /\ records' = Append(records, JVRecord(row, pass))
        /\ UNCHANGED << mainFrame, mainVars, history >>

\* Worker.run, `finally`: the procedure's shutdown, then the thread sets
\* its own should_stop and ends
WorkerShutdown ==
    \E w \in Stages :
        /\ WorkerAt(w) = "holding"
        /\ workers' = [ workers EXCEPT ![w] = [ at |-> "ended", should_stop |-> TRUE ] ]
        /\ UNCHANGED << mainFrame, main_pc, history, records, jv_proc, mpp_proc,
                        voc_measured >>

\* the voltage steps of jv_proc, in hundredths of a volt
MainSteps == { -2, 1, 2 }

ConfiguredEndVoltage == 10
ConfiguredInitialVoltage == 0

\* mpp_proc.probe_points = 3
MainProbePoints == 3

\* cfg holds the switches of main and the parameters main gives the
\* procedures; mpp_proc.power_production_mode is the one the MPP procedure
\* reads
InitMain ==
    /\ proc = "main"
    /\ cfg \in [ run_voc : BOOLEAN, run_jv : BOOLEAN, run_mpp : BOOLEAN,
                 threshold_points : 1..MaxTail,
                 probe_points : { MainProbePoints },
                 power_production_mode : BOOLEAN ]
    /\ main_pc = "voc"
    /\ workers = [ w \in Stages |-> [ at |-> "idle", should_stop |-> FALSE ] ]
    /\ jv_proc \in [ start_voltage : { 0 }, end_voltage : { ConfiguredEndVoltage },
                     voltage_step : MainSteps ]
    /\ mpp_proc = [ initial_voltage |-> ConfiguredInitialVoltage,
                     power_production_mode |-> cfg.power_production_mode ]
    /\ voc_measured = [ num |-> 0, den |-> 1 ]
    /\ elements = None
    /\ cycle_emitted = 0
    /\ pc = "off"
    /\ now = 0
    /\ stop = FALSE
    /\ instrument = None
    /\ start_time = NoTime
    /\ source_voltage = 0
    /\ probe_direction = 1
    /\ last_probe_time = NoTime
    /\ powers = << >>
    /\ cycle_start = 0
    /\ baseline_data = NoData
    /\ probe_data = NoData
    /\ better_voltage = 0
    /\ wait_end = 0
    /\ wait_ret = None
    /\ error = None
    /\ cycles = 0
    /\ dwell_start = NoTime
    /\ data = << >>
    /\ history = << >>
    /\ result = None
    /\ datum = NoDatum
    /\ buffer = << >>
    /\ emitted = 0
    /\ acq_error = None
    /\ acq_since_stop = 0
    /\ sweep_direction = 0
    /\ sweep_run_time = 0
    /\ commands = << >>
    /\ records = << >>

NextMain ==
    \/ MainStartVoc
    \/ MainJoinWait
    \/ MainJoined
    \/ MainReadVoc
    \/ MainStartJV
    \/ MainReadJV
    \/ MainStartMPP
    \/ WorkerStartup
    \/ WorkerEmitVoc
    \/ WorkerEmitJV
    \/ WorkerShutdown

SpecMain == InitMain /\ [][NextMain]_vars

----------------------------------------------------------------------------
(* Keithley2400_Procedure.wait_for, called on its own *)

MaxWait == 3   \* seconds ranges over 0..MaxWait, interval over 1..MaxWait

\* a caller calls wait_for( cfg.seconds, cfg.interval )
WaitCall ==
    /\ proc = "wait"
    /\ pc = "call"
    /\ EnterWait(now, cfg.seconds, "returned")
    /\ UNCHANGED << envVars, mainVars, jvVars, obsVars, mppLocals, vocVars, now, stop, instrument,
                    error, start_time, source_voltage, last_probe_time, datum, buffer >>

InitWait ==
    /\ proc = "wait"
    /\ cfg \in [ seconds : 0..MaxWait, interval : 1..MaxWait ]
    /\ elements = None
    /\ pc = "call"
    /\ cycle_emitted = 0
    /\ main_pc = "off"
    /\ workers = [ w \in { "voc", "jv", "mpp" } |-> [ at |-> "idle", should_stop |-> FALSE ] ]
    /\ jv_proc = [ start_voltage |-> 0, end_voltage |-> 0, voltage_step |-> 1 ]
    /\ mpp_proc = [ initial_voltage |-> 0, power_production_mode |-> FALSE ]
    /\ voc_measured = [ num |-> 0, den |-> 1 ]
    /\ now \in 0..MaxWait
    /\ stop = FALSE
    /\ instrument = "open"
    /\ start_time = NoTime
    /\ source_voltage = 0
    /\ probe_direction = 1
    /\ last_probe_time = NoTime
    /\ powers = << >>
    /\ cycle_start = 0
    /\ baseline_data = NoData
    /\ probe_data = NoData
    /\ better_voltage = 0
    /\ wait_end = 0
    /\ wait_ret = None
    /\ error = None
    /\ cycles = 0
    /\ dwell_start = NoTime
    /\ data = << >>
    /\ history = << >>
    /\ result = None
    /\ datum = NoDatum
    /\ buffer = << >>
    /\ emitted = 0
    /\ acq_error = None
    /\ acq_since_stop = 0
    /\ sweep_direction = 0
    /\ sweep_run_time = 0
    /\ commands = << >>
    /\ records = << >>

----------------------------------------------------------------------------
(* The three procedures side by side, and wait_for called on its own: a
   behaviour is a run of one of them *)

InitProcedure == InitMPP \/ InitVoc \/ InitJV \/ InitWait

NextProcedure ==
    \/ MPPExecute
    \/ MPPLoopTest
    \/ MPPBaselineSample
    \/ MPPBaselineReturn
    \/ MPPProbeSample
    \/ MPPProbeReturn
    \/ MPPDecide
    \/ VocExecute
    \/ VocTick
    \/ VocReadAfterShutdown
    \/ VocTimeout
    \/ JVStartup
    \/ JVExecute
    \/ JVSweepSleep
    \/ JVFetch
    \/ JVSettle
    \/ ProcShutdown
    \/ WaitCall
    \/ WaitPoll
    \/ WaitReturn
    \/ UserStop

SpecProcedures == InitProcedure /\ [][NextProcedure]_vars

----------------------------------------------------------------------------
(* Keithley2400_Procedure.set_elements, called on its own *)

MaxElms == 3   \* the list given to set_elements has 1..MaxElms names

valid_elms == << "time", "voltage", "current", "resistance", "status" >>

\* names a caller can give: valid ones in several spellings, and invalid ones
ElementNames == { "time", "Voltage", "CURRENT", "power", "volt" }

\* str.lower() on those names
Lower(name) ==
    CASE name = "time"    -> "time"
      [] name = "Voltage" -> "voltage"
      [] name = "CURRENT" -> "current"
      [] name = "power"   -> "power"
      [] name = "volt"    -> "volt"

SeqRange(s) == { s[i] : i \in 1..Len(s) }

\* variant: every name is accepted
InvalidElement_none(elms) == FALSE

\* `not all( elm.lower() in valid_elms for elm in elms )`
InvalidElement(elms) == \E i \in 1..Len(elms) : Lower(elms[i]) \notin SeqRange(valid_elms)

\* what the instrument answers to ':format:elements?' once it has been told
\* to report the given names: its short names, in its own order
RECURSIVE SelectShort(_, _)
SelectShort(pairs, wanted) ==
    IF pairs = << >> THEN << >>
    ELSE IF Head(pairs)[1] \in wanted
         THEN << Head(pairs)[2] >> \o SelectShort(Tail(pairs), wanted)
         ELSE SelectShort(Tail(pairs), wanted)

get_elements(elms) ==
    SelectShort(<< << "voltage", "VOLT" >>, << "current", "CURR" >>,
                   << "resistance", "RES" >>, << "time", "TIME" >>,
                   << "status", "STAT" >> >>,
                { Lower(elms[i]) : i \in 1..Len(elms) })

\* set_elements( elms ): ValueError before anything is written when a name
\* is invalid; otherwise the names are written and the answer of the
\* instrument is stored
SetElements ==
    /\ proc = "elements"
    /\ pc = "set_elements"
    /\ IF InvalidElement(cfg.elms)
       THEN /\ error' = "ValueError"
            /\ pc' = "raised"
            /\ UNCHANGED << commands, elements >>
       ELSE /\ commands' = Append(commands, Cmd(":format:elements", cfg.elms, now))
            /\ elements' = get_elements(cfg.elms)
            /\ pc' = "done"
            /\ UNCHANGED error
    /\ UNCHANGED << proc, cfg, cycle_emitted, mainVars, obsVars, mppLocals, vocVars,
                    waitVars, now, stop, instrument, start_time, source_voltage,
                    last_probe_time, datum, buffer, sweep_direction, sweep_run_time,
                    records >>

\* the lists of 1..MaxElms names
ElmsLists == UNION { [ 1..n -> ElementNames ] : n \in 1..MaxElms }

InitElements ==
    /\ proc = "elements"
    /\ cfg \in [ elms : ElmsLists ]
    /\ elements \in { None, << "VOLT", "CURR" >> }
    /\ pc = "set_elements"
    /\ cycle_emitted = 0
    /\ main_pc = "off"
    /\ workers = [ w \in { "voc", "jv", "mpp" } |-> [ at |-> "idle", should_stop |-> FALSE ] ]
    /\ jv_proc = [ start_voltage |-> 0, end_voltage |-> 0, voltage_step |-> 1 ]
    /\ mpp_proc = [ initial_voltage |-> 0, power_production_mode |-> FALSE ]
    /\ voc_measured = [ num |-> 0, den |-> 1 ]
    /\ now = 0
    /\ stop = FALSE
    /\ instrument = "open"
    /\ start_time = NoTime
    /\ source_voltage = 0
    /\ probe_direction = 1
    /\ last_probe_time = NoTime
    /\ powers = << >>
    /\ cycle_start = 0
    /\ baseline_data = NoData
    /\ probe_data = NoData
    /\ better_voltage = 0
    /\ wait_end = 0
    /\ wait_ret = None
    /\ error = None
    /\ cycles = 0
    /\ dwell_start = NoTime
    /\ data = << >>
    /\ history = << >>
    /\ result = None
    /\ datum = NoDatum
    /\ buffer = << >>
    /\ emitted = 0
    /\ acq_error = None
    /\ acq_since_stop = 0
    /\ sweep_direction = 0
    /\ sweep_run_time = 0
    /\ commands = << >>
    /\ records = << >>

SpecElements == InitElements /\ [][SetElements]_vars

----------------------------------------------------------------------------
(* Properties of the MPP engine *)

\* a decision has been taken and its inputs are still the current ones
DecisionTaken == proc = "mpp" /\ cycles > 0 /\ pc \in { "loop", "done" }

\* the step of execute that takes the decision
DecisionStep == pc = "decide" /\ pc' = "loop"

\* B and P: the compared sums of the baseline and of the probe series
B == ComparedSums(baseline_data.p, probe_data.p).m1
P == ComparedSums(baseline_data.p, probe_data.p).m2

\* C1: _better_voltage returns the probe voltage when P >= B (a tie
\* included) and the baseline voltage otherwise, B and P being the compared
\* sums after the sign adjustment.
C1_BetterVoltageIsProbeIffPgeB ==
    DecisionTaken =>
        better_voltage = (IF P >= B THEN probe_data.v ELSE baseline_data.v)

\* the tie B = P = 10 with distinct voltages, resolved to the probe voltage
C1_Witness ==
    /\ DecisionTaken
    /\ B = 10 /\ P = 10
    /\ probe_data.v # baseline_data.v
    /\ better_voltage = probe_data.v

\* C2: in every cycle probe_direction is negated if and only if the
\* decision selected the baseline (B > P); when the probe is selected
\* (P >= B) it is left unchanged.
C2_FlipIffBaselineSelected ==
    [][ DecisionStep =>
          /\ (B > P  => probe_direction' = -probe_direction)
          /\ (P >= B => probe_direction' = probe_direction) ]_vars

\* C3: after the decision the source voltage is the baseline voltage when
\* the baseline won and the baseline voltage + probe_direction x probe_step
\* when the probe won.
C3_SetpointAfterDecision ==
    [][ DecisionStep =>
          /\ (B > P  => source_voltage' = baseline_data.v)
          /\ (P >= B => source_voltage' =
                          baseline_data.v + probe_direction * cfg.probe_step) ]_vars

\* the baseline won a cycle whose probe voltage differs, and the setpoint is
\* back at the baseline voltage
C3_Witness ==
    /\ DecisionTaken
    /\ B > P
    /\ probe_data.v # baseline_data.v
    /\ source_voltage = baseline_data.v

\* C4: the decision sums exactly the last n = min( probe_points,
\* len( baseline ), len( probe ) ) samples of each series, so both sums are
\* taken over n samples.
C4_SameNumberOfSamples ==
    DecisionTaken =>
        LET n == NumPoints(baseline_data.p, probe_data.p)
        IN  /\ Len(ComparedSlice(baseline_data.p, n)) = n
            /\ Len(ComparedSlice(probe_data.p, n)) = n

\* elapsed time has reached run_time x 60 s
BudgetElapsed ==
    (now - start_time) * cfg.run_time.den >= cfg.run_time.num * SecondsPerMinute

InProbe ==
    proc = "mpp" /\ (pc \in { "probe", "decide" } \/ (pc = "wait" /\ wait_ret = "probe"))

\* C6: the probe phase changes the source voltage by probe_direction x
\* probe_step, acquires exactly probe_points samples at that voltage, sets
\* last_probe_time to the time it ends and leaves the instrument at the
\* probe voltage.
C6_ProbePhase ==
    /\ InProbe =>
         /\ source_voltage = baseline_data.v + probe_direction * cfg.probe_step
         /\ Len(powers) <= cfg.probe_points
    /\ (proc = "mpp" /\ pc = "decide") =>
         /\ Len(probe_data.p) = cfg.probe_points
         /\ probe_data.v = source_voltage
         /\ last_probe_time = now

\* a probe in the negative direction has returned with its samples
C6_Witness ==
    /\ proc = "mpp"
    /\ pc = "decide"
    /\ probe_direction = -1
    /\ cfg.probe_step = 1
    /\ Len(probe_data.p) = MaxProbePoints

\* C7: the baseline phase lasts until probe_interval has passed since the
\* end of the previous probe phase (in the first cycle: since the first
\* baseline phase was entered), so no probe starts earlier than that.
C7_BaselineDwell ==
    [][ (proc = "mpp" /\ pc = "baseline") =>
          /\ last_probe_time = dwell_start
          /\ (pc' = "probe" => now - dwell_start >= cfg.probe_interval) ]_vars

\* a probe of a later cycle has started, a whole probe_interval after the
\* previous probe ended
C7_Witness ==
    /\ proc = "mpp"
    /\ pc = "probe"
    /\ cycles >= 1
    /\ cfg.probe_interval = MaxInterval
    /\ now - dwell_start >= cfg.probe_interval

----------------------------------------------------------------------------
(* Properties of the acquisition and of the Voc detector *)

\* sum over the rows of voltage x current
SumVI(rows) ==
    SumSeq([ r \in 1..Len(rows) |->
               rows[r][Index(Elements, "VOLT")] * rows[r][Index(Elements, "CURR")] ])

\* C8: the power an MPP acquisition emits and feeds to the decision is the
\* mean over the acquired rows of voltage x current; no other column enters
\* the product.
C8_PowerIsMeanOfVI ==
    (proc = "mpp" /\ Len(buffer) > 0 /\ format_data(buffer).raised = None) =>
        datum.power * Len(format_data(buffer).rows) = SumVI(format_data(buffer).rows)

\* the last threshold_points voltages measured
LastVoltages ==
    SubSeq(history, Len(history) - cfg.threshold_points + 1, Len(history))

\* C9: when the voltages of threshold_points consecutive ticks have standard
\* deviation <= std_threshold before max_time, execute returns normally as
\* Settled at the tick that completes them, without raising.
C9_SettlesWhenStable ==
    (/\ proc = "voc"
     /\ cfg.threshold_points >= 1
     /\ Len(history) >= cfg.threshold_points
     /\ StdLE(LastVoltages, cfg.std_threshold))
    => (pc = "done" /\ result = "Settled" /\ error = None)

WindowAt(k) == SubSeq(history, k - cfg.threshold_points + 1, k)

\* no window of the run so far had a standard deviation <= std_threshold
NeverStable ==
    \A k \in 1..Len(history) :
        k >= cfg.threshold_points => ~StdLE(WindowAt(k), cfg.std_threshold)

\* C11: when the standard deviation of the window never becomes <=
\* std_threshold (and nothing else ends the run: no stop request, no
\* acquisition failure), execute ends normally as TimedOut, without an
\* exception, having emitted one record per tick.
C11_TimesOutWhenNeverStable ==
    (/\ proc = "voc"
     /\ Terminated
     /\ NeverStable
     /\ ~stop
     /\ acq_error = None
     /\ instrument = "open")
    => (/\ pc = "done"
        /\ result = "TimedOut"
        /\ error = None
        /\ ~FracLT1(voc_progress)
        /\ emitted = Len(history))

\* the settled test was evaluated in the run: execute returned from it as
\* Settled, or _settled raised
SettledTestEvaluated == result = "Settled" \/ error = "TypeError"

\* C12: a Voc run is never Settled while fewer than threshold_points samples
\* have been taken, and the settled test is evaluated only on a window that
\* holds at least threshold_points samples.
C12_SettledTestOnlyOnFullWindow ==
    proc = "voc" =>
        /\ result = "Settled" => Len(history) >= cfg.threshold_points
        /\ SettledTestEvaluated =>
              /\ Len(data) >= cfg.threshold_points
              /\ Len(history) >= cfg.threshold_points

\* the test is reached at the second tick of a run with threshold_points = 2:
\* the first tick passed without it
C12_Witness ==
    /\ proc = "voc"
    /\ cfg.threshold_points = 2
    /\ SettledTestEvaluated
    /\ Len(history) = 2
    /\ Len(data) = 2

\* C13: when the acquisition of a Voc tick fails, the failure leaves execute
\* once the instrument is shut down: the step that follows the shutdown ends
\* the run with that error, emits no record and reads no buffer, so no later
\* tick runs.
C13_VocAcquisitionFailurePropagates ==
    [][ (proc = "voc" /\ pc = "get_data_except" /\ stop' = stop) =>
            /\ pc' = "raised"
            /\ error' = acq_error
            /\ emitted' = emitted
            /\ history' = history
            /\ buffer' = buffer ]_vars

\* a step of a sampling loop of _baseline or _probe: the only steps of these
\* phases during which the clock advances
SamplingStep == proc = "mpp" /\ pc \in { "baseline", "probe" } /\ now' > now

\* the error the latest acquisition or its format_data raised
SampleError ==
    IF acq_error # None THEN acq_error ELSE format_data(buffer).raised

\* C14: in an MPP run an error of the buffer acquisition or of format_data
\* during a baseline or probe phase ends execute with that error: the sample
\* is not replaced or skipped (nothing is appended or emitted), and after it
\* no step is taken, so no decision, and probe_direction and the power series
\* are not used again.
C14_MPPSampleErrorIsFatal ==
    /\ [](proc = "mpp" /\ acq_error # None => pc = "raised" /\ error = acq_error)
    /\ [][ SamplingStep /\ SampleError' # None =>
              /\ pc' = "raised"
              /\ error' = SampleError'
              /\ powers' = powers
              /\ emitted' = emitted
              /\ cycles' = cycles
              /\ probe_direction' = probe_direction
              /\ source_voltage' = source_voltage ]_vars
    /\ [][ proc = "mpp" => pc # "raised" ]_vars

\* the acquisition fails in a phase that has already collected a sample
C14_Witness ==
    /\ proc = "mpp"
    /\ pc = "raised"
    /\ acq_error = "VisaIOError"
    /\ error = "VisaIOError"
    /\ Len(powers) >= 1

\* a poll slice of wait_for finds the stop flag set
CancelObserved == pc = "wait" /\ now < wait_end /\ stop

\* C15: when wait_for finds the stop flag set at a poll slice it shuts the
\* instrument down and ends execute with an error; from then on the run
\* acquires nothing, emits nothing and writes no setpoint (it takes no step).
C15_CancelShutsDownThenRaises ==
    /\ [][ CancelObserved =>
              /\ instrument' = "shutdown"
              /\ pc' = "raised"
              /\ error' = "RuntimeError"
              /\ now' = now
              /\ buffer' = buffer
              /\ emitted' = emitted
              /\ source_voltage' = source_voltage ]_vars
    /\ [](error = "RuntimeError" => pc = "raised" /\ instrument = "shutdown")
    /\ [][ error # "RuntimeError" ]_vars

\* an MPP run cancelled after it has emitted records
C15_Witness ==
    /\ proc = "mpp"
    /\ error = "RuntimeError"
    /\ pc = "raised"
    /\ instrument = "shutdown"
    /\ emitted >= 1

\* C16: once the stop flag is raised (it stays raised), a Voc or MPP run is
\* cancelled at the next wait between acquisitions: at most one acquisition
\* begins with the flag set, whatever the latency of the acquisitions.
C16_CancelledWithinOneAcquisition ==
    proc \in { "mpp", "voc" } => acq_since_stop <= 1

\* the procedure is in a delay of execute: a wait_for that has time left, the
\* JV wait for the sweep, or the JV settle between the two passes
InDelay ==
    \/ pc = "wait" /\ now < wait_end
    \/ proc = "jv" /\ pc = "sweep_sleep"
    \/ proc = "jv" /\ pc = "settle" /\ cfg.settle_time > 0

\* C17: every delay inside execute goes through wait_for, so a delay entered
\* or continued with the stop flag raised ends the run as cancelled.
C17_EveryDelayIsCancellable ==
    [][ InDelay /\ stop => pc' = "raised" /\ error' = "RuntimeError" ]_vars

\* the wait_for in progress was called with no time left
NoTimeRemaining == pc = "wait" /\ now >= wait_end

\* C18: _time_remaining returns interval - ( now - cycle_start ), so the
\* wait that follows a sample ends at cycle_start + data_interval; when
\* nothing remains, wait_for returns at once: no sleep, no shutdown, no
\* error, even with the stop flag set, and the loop goes on.
C18_OverrunWaitIsNoOp ==
    /\ [](proc = "mpp" /\ pc = "wait" => wait_end = cycle_start + cfg.data_interval)
    /\ [][ proc = "mpp" /\ NoTimeRemaining /\ stop' = stop =>
              /\ pc' = wait_ret
              /\ pc' \in { "baseline", "probe" }
              /\ now' = now
              /\ instrument' = instrument
              /\ error' = error ]_vars

\* a sample overran data_interval (the remaining time is negative) while
\* the stop flag is set
C18_Witness ==
    /\ proc = "mpp"
    /\ pc = "wait"
    /\ cfg.data_interval > 0
    /\ now > wait_end
    /\ stop
    /\ instrument = "open"

FracLE(a, b) == a.num * b.den <= b.num * a.den

\* the elapsed time has reached the budget
BudgetReached == time_elapsed * Budget.den >= Budget.num

\* C19: for every configured budget, the progress of a Voc or MPP procedure
\* is 0 before execute has started, lies in [0, 1] afterwards, never
\* decreases as the clock advances, and is 1 exactly when the elapsed time
\* has reached the budget.
C19_ProgressIsClampedAndMonotonic ==
    /\ [](/\ Progress.raised = None
          /\ start_time = NoTime => Progress = Whole(0)
          /\ FracLE(Whole(0), Progress) /\ FracLE(Progress, Whole(1))
          /\ start_time # NoTime => (Progress = Whole(1) <=> BudgetReached))
    /\ [][ FracLE(Progress, Progress') ]_vars

\* the row-major flattening of a sequence of rows
RECURSIVE Flatten(_)
Flatten(rows) == IF rows = << >> THEN << >> ELSE Head(rows) \o Flatten(Tail(rows))

\* C20: for a flat sequence of k x len( elements ) values format_data
\* returns k rows of len( elements ) values whose row-major flattening is the
\* sequence; for any other length it raises and returns no rows.
C20_FormatDataRoundTrip ==
    (pc \in { "formatted", "raised" } /\ cfg = [ buffer_points |-> 1 ]) =>
        LET cols == Len(Elements)
            n    == Len(buffer)
        IN  IF n % cols = 0
            THEN /\ pc = "formatted"
                 /\ error = None
                 /\ Len(data) * cols = n
                 /\ \A r \in 1..Len(data) : Len(data[r]) = cols
                 /\ Flatten(data) = buffer
            ELSE /\ pc = "raised"
                 /\ error = "ValueError"
                 /\ data = << >>

\* two rows of three elements come back from six values that are not all
\* the same
C20_Witness ==
    /\ pc = "formatted"
    /\ cfg = [ buffer_points |-> 1 ]
    /\ proc = "mpp"
    /\ buffer = << 0, 1, 1, 1, 0, 0 >>
    /\ data = << << 0, 1, 1 >>, << 1, 0, 0 >> >>

Sign(x) == IF x > 0 THEN 1 ELSE IF x < 0 THEN -1 ELSE 0

Abs(x) == IF x < 0 THEN -x ELSE x

\* startup has written the sweep to the instrument
StepWritten == \E i \in 1..Len(commands) : commands[i].cmd = ":source:voltage:step"

\* the step startup wrote
WrittenStep ==
    commands[CHOOSE i \in 1..Len(commands) : commands[i].cmd = ":source:voltage:step"].arg

\* C21 as stated: for all start_voltage, end_voltage and non-zero
\* voltage_step, the step JV startup writes has the sign of end_voltage -
\* start_voltage and the magnitude of the configured voltage_step.
C21_StepHasSignOfSpan ==
    (proc = "jv" /\ StepWritten) =>
        /\ Sign(WrittenStep) = Sign(cfg.end_voltage - cfg.start_voltage)
        /\ Abs(WrittenStep) = Abs(cfg.voltage_step)

\* C21 amended: the written step has the magnitude of the configured step;
\* when start_voltage and end_voltage differ it has the sign of end_voltage -
\* start_voltage, and when they are equal it is the configured step, which
\* is not zero.
C21_StepNormalised ==
    (proc = "jv" /\ StepWritten) =>
        /\ Abs(WrittenStep) = Abs(cfg.voltage_step)
        /\ cfg.end_voltage # cfg.start_voltage =>
              Sign(WrittenStep) = Sign(cfg.end_voltage - cfg.start_voltage)
        /\ cfg.end_voltage = cfg.start_voltage => WrittenStep = cfg.voltage_step

\* a positive step of a downward sweep was negated
C21_Witness ==
    /\ proc = "jv"
    /\ StepWritten
    /\ cfg.start_voltage > cfg.end_voltage
    /\ cfg.voltage_step = 2
    /\ WrittenStep = -2

\* the commands of execute and _sweep among those sent, in order
SweepCommands ==
    SelectSeq(commands,
              LAMBDA c : c.cmd \in { "enable_source", ":source:sweep:direction up",
                                     ":source:sweep:direction down", "initiate", "fetch?" })

CommandNames(cmds) == [ i \in 1..Len(cmds) |-> cmds[i].cmd ]

\* what a run of execute sends: the forward sweep, then the reverse sweep
\* under full_sweep
ExpectedSweepCommands(full_sweep) ==
    << "enable_source", ":source:sweep:direction up", "initiate", "fetch?" >>
      \o (IF full_sweep
          THEN << ":source:sweep:direction down", "initiate", "fetch?" >>
          ELSE << >>)

IsPrefix(a, b) == Len(a) <= Len(b) /\ a = SubSeq(b, 1, Len(a))

\* execute has returned normally
ExecuteReturned == pc = "done" \/ (pc = "closed" /\ error = None)

\* C22: execute performs one forward sweep first and, exactly under
\* full_sweep, one reverse sweep after it, and no other direction; a sweep is
\* fetched only after it was initiated and its wait of run_time* 1.1 has
\* elapsed; every record of the forward pass precedes every record of the
\* reverse pass.
C22_ForwardThenOptionalReverse ==
    proc = "jv" =>
        /\ sweep_direction \in { 0, 1, -1 }
        /\ IsPrefix(CommandNames(SweepCommands), ExpectedSweepCommands(cfg.full_sweep))
        /\ ExecuteReturned =>
              CommandNames(SweepCommands) = ExpectedSweepCommands(cfg.full_sweep)
        /\ \A i \in 1..Len(SweepCommands) :
              SweepCommands[i].cmd = "fetch?" =>
                  /\ i > 1
                  /\ SweepCommands[i - 1].cmd = "initiate"
                  /\ SweepCommands[i].at >=
                       SweepCommands[i - 1].at + SweepSleep(sweep_run_time)
        /\ \A i, j \in 1..Len(records) :
              i < j => ~(records[i].pass = -1 /\ records[j].pass = 1)
        /\ \A i \in 1..Len(records) : records[i].pass \in { 1, -1 }

\* a full sweep has returned with records of both passes
C22_Witness ==
    /\ proc = "jv"
    /\ pc = "done"
    /\ cfg.full_sweep
    /\ \E i, j \in 1..Len(records) : records[i].pass = 1 /\ records[j].pass = -1
    /\ Len(records) >= 3

\* C23: _sweep called with a direction other than +1 or -1 raises before it
\* writes any command, initiates any sweep or emits any record (nothing of
\* the call goes on).
C23_InvalidDirectionRaisesFirst ==
    (proc = "jv" /\ sweep_direction \notin { 1, -1 }) =>
        /\ pc \in { "sweep_call", "raised" }
        /\ pc = "raised" => error = "ValueError"
        /\ commands = << >>
        /\ records = << >>
        /\ emitted = 0
        /\ buffer = << >>
        /\ now = 0

\* the call with direction 2 has raised
C23_Witness ==
    /\ proc = "jv"
    /\ sweep_direction = 2
    /\ pc = "raised"
    /\ error = "ValueError"
    /\ commands = << >>

\* C30: startup without a port raises before an instrument is created or
\* commanded; the instrument stays unset, and the shutdown that follows
\* sends nothing and raises nothing (the error of the run is still the one
\* of startup).
C30_NoPortNoInstrument ==
    (proc = "jv" /\ cfg.port = None) =>
        /\ instrument = None
        /\ commands = << >>
        /\ pc \in { "startup", "raised", "closed" }
        /\ pc # "startup" => error = "RuntimeError"

\* shutdown has been called after the failed startup
C30_Witness ==
    /\ proc = "jv"
    /\ cfg.port = None
    /\ pc = "closed"
    /\ instrument = None
    /\ commands = << >>
    /\ error = "RuntimeError"

\* C29: in an MPP run the source voltage is written only by the initial
\* setpoint assignment of execute, by the probe step and by the revert of the
\* decision; the acquisitions of both phases, the waits and the emits leave
\* it as it is.
C29_SourceVoltageWriters ==
    /\ [][ (proc = "mpp" /\ source_voltage' # source_voltage) =>
              \/ pc = "execute" /\ source_voltage' = cfg.initial_voltage
              \/ /\ pc = "baseline" /\ pc' = "probe"
                 /\ source_voltage' = source_voltage + probe_direction * cfg.probe_step
              \/ pc = "decide" /\ source_voltage' = baseline_data.v ]_vars
    /\ [][ (SamplingStep \/ (proc = "mpp" /\ pc = "wait") \/ emitted' # emitted) =>
              source_voltage' = source_voltage ]_vars

\* a probe sample has been acquired and emitted at the probe voltage, one
\* step away from the baseline voltage
C29_Witness ==
    /\ proc = "mpp"
    /\ pc = "wait"
    /\ wait_ret = "probe"
    /\ cfg.probe_step = 1
    /\ source_voltage = baseline_data.v + probe_direction
    /\ Len(powers) >= 1
    /\ emitted >= 2

(* Properties of the orchestrator *)

\* the stages that hold the instrument: started up and not yet shut down
Holding == { w \in Stages : WorkerAt(w) = "holding" }

Over(w) == WorkerAt(w) \in { "idle", "ended" }

VocSeeded ==
    /\ proc = "main"
    /\ cfg.run_voc
    /\ main_pc \in { "jv", "jv_wait", "jv_join", "jv_read", "mpp", "end" }

\* C25: for the measured Voc v (the mean of the last threshold_points
\* recorded voltages) and the step s, the end voltage main sets is a
\* multiple m * s of the step on the same side of zero as v, with
\* |m * s| >= |v| and |m * s| - |v| < |s|.
C25_EndVoltageRoundedAwayFromZero ==
    VocSeeded =>
        LET v == voc_measured
            s == jv_proc.voltage_step
            e == jv_proc.end_voltage
        IN  /\ v = SeriesMean(TailRows(history, cfg.threshold_points))
            /\ \E m \in (-Abs(e))..Abs(e) : e = m * s
            /\ Sign(e) = Sign(v.num)
            /\ Abs(e) * v.den >= Abs(v.num)
            /\ Abs(e) * v.den - Abs(v.num) < Abs(s) * v.den

\* a measured Voc of -0.5 hundredths with a step of -2 gives -2
C25_Witness ==
    /\ VocSeeded
    /\ history = << -3, 2 >>
    /\ voc_measured = [ num |-> -1, den |-> 2 ]
    /\ jv_proc.voltage_step = -2
    /\ jv_proc.end_voltage = -2

\* every voltage the mean was taken over is 0.62 V, and the step is 0.01 V
SettledAt062 ==
    /\ VocSeeded
    /\ \A i \in 1..Len(TailRows(history, cfg.threshold_points)) :
          TailRows(history, cfg.threshold_points)[i] = 62
    /\ jv_proc.voltage_step = 1

\* C26 as stated: when Voc settles at 0.62 V and the step is 0.01 V, the
\* JV end voltage becomes 0.63 V.
C26_EndVoltageIs063 == SettledAt062 => jv_proc.end_voltage = 63

\* C26: when Voc settles at 0.62 V and the step is 0.01 V, the JV end
\* voltage becomes 0.62 V, the measured value being a multiple of the step
\* already.
C26_EndVoltageIs062 == SettledAt062 => jv_proc.end_voltage = 62

\* two records of 0.62 V have been averaged
C26_Witness ==
    /\ SettledAt062
    /\ cfg.threshold_points = 2
    /\ history = << 62, 62 >>
    /\ voc_measured = [ num |-> 124, den |-> 2 ]

\* main has set the MPP initial voltage from the JV records
JVSeeded ==
    /\ proc = "main"
    /\ cfg.run_jv
    /\ main_pc \in { "mpp", "end" }

\* the power main looks for: the greatest in production mode, else the least
IsExtreme(p) ==
    \A j \in 1..Len(records) :
        IF mpp_proc.power_production_mode THEN records[j].power <= p
                                          ELSE records[j].power >= p

\* C27: after the JV stage the MPP initial voltage is the voltage of the
\* first record, among all records of both passes, whose power is the
\* maximum in production mode and the minimum otherwise.
C27_SeedIsVoltageOfExtremePower ==
    JVSeeded =>
        \E i \in 1..Len(records) :
            /\ IsExtreme(records[i].power)
            /\ \A j \in 1..(i - 1) : ~IsExtreme(records[j].power)
            /\ mpp_proc.initial_voltage = records[i].voltage

\* production mode, a tie between a record of the forward pass and a record
\* of the reverse pass at another voltage: the first one seeds
C27_Witness ==
    /\ JVSeeded
    /\ mpp_proc.power_production_mode
    /\ Len(records) = 2
    /\ records[1].pass = 1
    /\ records[2].pass = -1
    /\ records[1].power = records[2].power
    /\ records[1].voltage # records[2].voltage
    /\ mpp_proc.initial_voltage = records[1].voltage

\* C28: with run_voc false the Voc procedure is never started and the JV
\* end voltage keeps its configured value; with run_jv false the JV
\* procedure is never started and the MPP initial voltage keeps its
\* configured value; and once main is past a stage's place that stage, when
\* enabled, has been started whether or not the stages before it were.
C28_DisabledStagesAreSkipped ==
    proc = "main" =>
        /\ ~cfg.run_voc =>
              /\ WorkerAt("voc") = "idle"
              /\ jv_proc.end_voltage = ConfiguredEndVoltage
        /\ ~cfg.run_jv =>
              /\ WorkerAt("jv") = "idle"
              /\ mpp_proc.initial_voltage = ConfiguredInitialVoltage
        /\ cfg.run_jv /\ main_pc \in { "jv_wait", "jv_join", "jv_read", "mpp", "end" } =>
              WorkerAt("jv") # "idle"
        /\ cfg.run_mpp /\ main_pc = "end" => WorkerAt("mpp") # "idle"

\* Voc and JV disabled, MPP enabled: the MPP stage holds the instrument
\* with its configured initial voltage
C28_Witness ==
    /\ proc = "main"
    /\ ~cfg.run_voc
    /\ ~cfg.run_jv
    /\ cfg.run_mpp
    /\ main_pc = "end"
    /\ WorkerAt("mpp") = "holding"
    /\ mpp_proc.initial_voltage = ConfiguredInitialVoltage

(* Properties of set_elements *)

\* C31: set_elements given a list with any name outside time, voltage,
\* current, resistance, status (compared without regard to case) raises
\* before anything is written to the instrument, and the stored elements
\* stay as they were.
C31_InvalidElementRejectedFirst ==
    /\ [][ (proc = "elements" /\ pc = "set_elements"
              /\ \E i \in 1..Len(cfg.elms) :
                    cfg.elms[i] \notin { "time", "Voltage", "CURRENT" }) =>
              /\ pc' = "raised"
              /\ error' = "ValueError"
              /\ commands' = commands
              /\ elements' = elements ]_vars
    /\ [][ (proc = "elements" /\ pc = "set_elements"
              /\ \A i \in 1..Len(cfg.elms) :
                    cfg.elms[i] \in { "time", "Voltage", "CURRENT" }) =>
              /\ pc' = "done"
              /\ Len(commands') = 1 ]_vars

\* a list with one valid and one invalid name has been refused while a list
\* of elements was stored
C31_Witness ==
    /\ proc = "elements"
    /\ pc = "raised"
    /\ cfg.elms = << "Voltage", "power" >>
    /\ elements = << "VOLT", "CURR" >>
    /\ commands = << >>

(* Properties of the emitted records *)

\* a step of Voc or MPP during which the instrument acquires a buffer
AcquisitionStep ==
    /\ \/ proc = "mpp" /\ pc \in { "baseline", "probe" }
       \/ proc = "voc" /\ pc = "loop"
    /\ now' > now

\* the latest acquisition returned a buffer that format_data accepted
AcquisitionOK == acq_error = None /\ Len(buffer) % 3 = 0

\* the record JV emits for the row r of a flat buffer of voltage, current
\* pairs
RowRecord(flat, r) ==
    [ voltage |-> flat[2 * r - 1],
      current |-> flat[2 * r],
      power   |-> flat[2 * r] * flat[2 * r - 1],
      pass    |-> sweep_direction ]

\* C32: in Voc and MPP every successful acquisition emits exactly one record
\* in the same pass of the loop, before the next acquisition, and records
\* are emitted one at a time; a Voc run has emitted one record per measured
\* voltage, the latest being that of the latest datum; an MPP cycle emits as
\* many records as it took baseline samples plus probe_points; a JV sweep
\* emits one record per row of the fetched buffer, in the order of the
\* buffer.
C32_OneRecordPerAcquisitionInOrder ==
    /\ [][ AcquisitionStep /\ AcquisitionOK' => emitted' = emitted + 1 ]_vars
    /\ [][ (proc \in { "mpp", "voc" } /\ emitted' # emitted) =>
              /\ emitted' = emitted + 1
              /\ (AcquisitionStep \/ pc = "get_data_except") ]_vars
    /\ [](proc = "voc" =>
              /\ emitted = Len(history)
              /\ emitted > 0 => history[emitted] = datum.voltage)
    /\ [](proc = "mpp" /\ (pc = "decide" \/ (pc \in { "loop", "done" } /\ cycles > 0)) =>
              emitted - cycle_emitted = Len(baseline_data.p) + cfg.probe_points)
    /\ [](proc = "mpp" /\ pc = "baseline" => emitted - cycle_emitted = Len(powers))
    /\ [][ (proc = "jv" /\ (records' # records \/ emitted' # emitted)) =>
              /\ pc = "fetch"
              /\ Len(buffer') % 2 = 0
              /\ emitted' = emitted + Len(buffer') \div 2
              /\ records' = records \o
                    [ r \in 1..(Len(buffer') \div 2) |-> RowRecord(buffer', r) ] ]_vars

\* an MPP cycle with a baseline sample and two probe samples has ended with
\* three records
C32_Witness ==
    /\ proc = "mpp"
    /\ pc = "loop"
    /\ cycles = 1
    /\ cfg.probe_points = 2
    /\ Len(baseline_data.p) = 1
    /\ cycle_emitted = 0
    /\ emitted = 3

(* Properties of the MPP setpoint *)

\* v is initial_voltage plus a whole number of probe steps
OnGrid(v) ==
    IF cfg.probe_step = 0
    THEN v = cfg.initial_voltage
    ELSE (v - cfg.initial_voltage) % Abs(cfg.probe_step) = 0

\* the setpoint the previous decision left, the initial voltage before the
\* first decision
PreviousSetpoint == IF cycles = 0 THEN cfg.initial_voltage ELSE better_voltage

\* C33: once execute has set the initial voltage, the source voltage is at
\* every moment initial_voltage + k * probe_step for a whole k;
\* probe_direction starts as +1 and is always +1 or -1; and the setpoint a
\* decision leaves differs from the one the previous decision left by 0 or by
\* one probe_step.
C33_SetpointStaysOnTheGrid ==
    /\ [](proc = "mpp" /\ pc # "execute" => OnGrid(source_voltage))
    /\ [](proc = "mpp" => probe_direction \in { 1, -1 })
    /\ [][ (proc = "mpp" /\ pc = "execute") => probe_direction' = 1 ]_vars
    /\ [](DecisionTaken => source_voltage = better_voltage)
    /\ [][ DecisionStep =>
              Abs(source_voltage' - PreviousSetpoint) \in { 0, Abs(cfg.probe_step) } ]_vars

\* from 1 V a first probe was kept at 3 V and a second one, at 5 V, was
\* rejected: back at 3 V with the direction turned
C33_Witness ==
    /\ proc = "mpp"
    /\ cfg.probe_step = 2
    /\ cycles = 2
    /\ pc = "loop"
    /\ baseline_data.v = 3
    /\ probe_data.v = 5
    /\ source_voltage = 3
    /\ probe_direction = -1

\* C34: with the cell, whose power is noise-free, constant in time and
\* strictly unimodal on the grid, a decision taken with the baseline at the
\* peak leaves the setpoint at the peak and turns the direction; a decision
\* taken elsewhere moves the setpoint one step towards the peak, except that
\* the first decision of the run may reject its probe.
C34_ClimbsToThePeakAndStays ==
    [][ (DecisionStep /\ cfg.cell # None) =>
           /\ baseline_data.v = CellPeak =>
                 /\ source_voltage' = CellPeak
                 /\ probe_direction' = -probe_direction
           /\ (baseline_data.v # CellPeak /\ cycles >= 1) =>
                 Abs(source_voltage' - CellPeak) = Abs(baseline_data.v - CellPeak) - 2
           /\ (baseline_data.v # CellPeak /\ cycles = 0) =>
                 \/ source_voltage' = baseline_data.v
                 \/ Abs(source_voltage' - CellPeak) = Abs(baseline_data.v - CellPeak) - 2
      ]_vars

\* C35: once execute has set the initial voltage, the magnitude of the
\* source voltage never exceeds voltage_range.
C35_SetpointWithinVoltageRange ==
    (proc = "mpp" /\ pc # "execute") => Abs(source_voltage) <= cfg.voltage_range

(* Properties of the MPP phases *)

\* the budget run_time* 60 has elapsed at time t
BudgetElapsedAt(t) ==
    (t - start_time) * RunSeconds(cfg.run_time).den >= RunSeconds(cfg.run_time).num

\* C36: the phases of an MPP run follow one another as baseline, probe,
\* decision; the budget is tested only where a cycle starts, so execute
\* returns from there only; a decision is taken exactly when a probe has
\* returned, so there are as many decisions as probes; and, the run being
\* neither cancelled nor ended by an error, every cycle that has started
\* reaches its decision, whether or not the budget elapses on the way.
C36_CyclesRunToTheirDecision ==
    /\ [][ (proc = "mpp" /\ pc = "loop") => pc' \in { "baseline", "done" } ]_vars
    /\ [][ (proc = "mpp" /\ pc = "loop" /\ pc' = "baseline") => FracLT1(mpp_progress) ]_vars
    /\ [][ (proc = "mpp" /\ pc' = "done") => pc = "loop" /\ ~FracLT1(mpp_progress) ]_vars
    /\ [][ (proc = "mpp" /\ pc = "baseline") => pc' \in { "wait", "probe", "raised" } ]_vars
    /\ [][ (proc = "mpp" /\ pc = "probe") => pc' \in { "wait", "decide", "raised" } ]_vars
    /\ [][ (proc = "mpp" /\ pc = "wait") => pc' \in { "wait", wait_ret, "raised" } ]_vars
    /\ [][ (proc = "mpp" /\ pc' = "decide") =>
              pc = "probe" /\ Len(powers) = cfg.probe_points ]_vars
    /\ [][ (proc = "mpp" /\ pc = "decide") => pc' = "loop" /\ cycles' = cycles + 1 ]_vars
    /\ [][ (proc = "mpp" /\ cycles' # cycles) => pc = "decide" ]_vars
    /\ (proc = "mpp" /\ pc = "baseline") ~> (pc \in { "decide", "raised" })

\* a cycle has reached its decision although its latest acquisition began
\* when the budget had elapsed
C36_Witness ==
    /\ proc = "mpp"
    /\ pc = "loop"
    /\ cycles >= 1
    /\ emitted >= 2
    /\ BudgetElapsedAt(cycle_start)
    /\ error = None

(* Properties of wait_for *)

\* the slice wait_for sleeps, by caller
Slice ==
    CASE proc = "voc"  -> [ num |-> cfg.data_interval, den |-> 5 ]
      [] proc = "wait" -> [ num |-> cfg.interval, den |-> 1 ]
      [] OTHER         -> [ num |-> 1, den |-> 1 ]

\* a step of a wait in which time passes
SleepStep == pc = "wait" /\ now' # now

\* C37: while no stop is requested, wait_for sleeps whole slices, each
\* begun before its end time, and returns once that time is reached: with
\* seconds > 0 it returns at least seconds and less than seconds + interval
\* after the call, a whole number of slices later; the slice is
\* data_interval/ 5 in Voc, the interval given in a direct call, and one
\* second in the MPP engine.
C37_WaitReturnsWithinOneSlice ==
    /\ [][ SleepStep =>
              /\ pc' = "wait"
              /\ ~stop
              /\ (now' - now) * Slice.den = Slice.num
              /\ now < wait_end
              /\ now' * Slice.den < wait_end * Slice.den + Slice.num ]_vars
    /\ [][ (pc = "wait" /\ pc' \notin { "wait", "raised" }) =>
              /\ pc' = wait_ret
              /\ now >= wait_end
              /\ now' = now ]_vars
    /\ [][ (pc = "wait" /\ pc' = "raised") => stop ]_vars
    /\ [](proc = "wait" /\ pc = "returned" /\ cfg.seconds > 0 =>
              LET elapsed == now - (wait_end - cfg.seconds)
              IN  /\ elapsed >= cfg.seconds
                  /\ elapsed < cfg.seconds + cfg.interval
                  /\ elapsed % cfg.interval = 0)

\* a direct call has returned later than asked for: the slice does not
\* divide the seconds
C37_Witness ==
    /\ proc = "wait"
    /\ pc = "returned"
    /\ cfg.seconds > 0
    /\ now > wait_end
    /\ ~stop

(* Properties of the seed and the comparator *)

\* a JV record as the comparator sees a voltage and its one-sample series
AsSeries(tag, power) == [ v |-> tag, p |-> << power >> ]

\* C38: in either mode, the JV record whose voltage main gives the MPP
\* procedure as its initial voltage is one that _better_voltage, comparing
\* it with any other JV record, never ranks strictly below that record.
C38_SeedIsNeverRankedBelowARecord ==
    JVSeeded =>
        \E i \in 1..Len(records) :
            /\ mpp_proc.initial_voltage = records[i].voltage
            /\ \A j \in 1..Len(records) :
                  BetterVoltage(AsSeries("other", records[j].power),
                                AsSeries("seed", records[i].power)) = "seed"

\* consumption mode and two records of different power: the seed is the
\* record of the lesser power
C38_Witness ==
    /\ JVSeeded
    /\ ~mpp_proc.power_production_mode
    /\ \E i, j \in 1..Len(records) :
          /\ records[i].power < records[j].power
          /\ records[i].voltage # records[j].voltage
          /\ mpp_proc.initial_voltage = records[i].voltage

====
